---- MODULE Spec2Model ----
(***************************************************************************)
(* Face Age SafeSearch extension: the popup pipeline (popup.js), the       *)
(* background policy sink (background service worker) and the consent      *)
(* page, as one state machine.                                             *)
(*                                                                         *)
(* Encodings.  A JavaScript tri-state boolean (state.lastMinorState, the   *)
(* stored isMinor) is "null" | "MINOR" (true) | "MAJOR" (false).  A        *)
(* probability is an integer in thousandths (0.52 is 520).  A storage key  *)
(* that is absent is FALSE (consentGiven) or 0 (verificationAllowedUntil), *)
(* the values the code's truthiness tests cannot tell from absence.        *)
(* Every action is one synchronous run of the code between two awaits.     *)
(*                                                                         *)
(* Spec is the extension as the user drives it.  CycleSpec is one analysis *)
(* cycle of the same actions from the captured frame on, with the          *)
(* classifier's answers fixed in the initial state (feed), over a wider    *)
(* range of raw outputs.  RegionSpec is one cycle from the frame capture   *)
(* on, over the face lists a detector can return (coordinates in half      *)
(* pixels, a probability of -1 when the face carries none).  SinkSpec is   *)
(* the background answering one SET_SAFE message from every store earlier  *)
(* cycles can leave; RestartSpec adds the popup closed and reopened        *)
(* around that message.  GateSpec is the gate content script of one tab    *)
(* beside a cycle that writes the verification window; there a negative    *)
(* verificationAllowedUntil -n is a stored string with the digits of n.    *)
(* GateFairSpec is GateSpec with the periodic check never ceasing.         *)
(* PagesSpec puts the full-page analyzer (web_script.js) and the gate      *)
(* overlay's button beside a popup cycle, all three sending messages to    *)
(* the background; FlagSpec is that cycle and the background alone, every  *)
(* awaited promise settling.  ConsentSpec is the consent page handler by   *)
(* handler, with storage writes that resolve or reject.                    *)
(***************************************************************************)
EXTENDS Integers, Sequences, FiniteSets, TLC

\* ---- bounds of the model ----
MaxClicks == 2      \* start requests the user makes in one popup session
MaxTicks == 1       \* clock advances
TickMs == 1800000   \* size of one clock advance, in ms
MaxGateTicks == 3   \* clock advances a tab with the gate script lives through
MaxSaves == 2       \* accept handlers of the consent page in flight at once

\* ---- program constants ----
HourMs == 3600000          \* 60 * 60 * 1000
MAJOR_THRESHOLD == 520     \* 0.52
FACE_PADDING == 25
MIN_FACE_SIZE == 50
RULE_ID_GOOGLE == 1001
RULE_ID_BING == 1002

NULL == "null"
Verdicts == {"MINOR", "MAJOR"}
\* raw output vectors of the classifier (thousandths): a probability, a pair of
\* logits, a vector of a length the interpreter does not know
RawOutputs == {<<460>>, <<200, 800>>, <<100, 200, 700>>}
\* what one inference pass can come back with: runInference throws, or its data
Outcomes == {[kind |-> "throw", data |-> <<>>]}
              \cup {[kind |-> "data", data |-> d] : d \in RawOutputs}
\* raw outputs for the cycles whose classifier answers are fixed in advance:
\* probabilities on and around the thresholds, logits, logit pairs, bad lengths
SingleOutputs ==
  RawOutputs \cup {<<0>>, <<400>>, <<401>>, <<479>>, <<480>>, <<500>>, <<510>>,
                   <<519>>, <<520>>, <<550>>, <<599>>, <<600>>, <<1000>>,
                   <<2000>>, <<-1000>>, <<800, 200>>, <<500, 500>>,
                   <<900, 1000>>, <<1000, 900>>, <<-1000, 2000>>, <<>>}
EnsembleOutputs == {<<0>>, <<400>>, <<480>>, <<550>>, <<580>>, <<1000>>,
                    <<200, 800>>, <<100, 200, 700>>}
Throw == [kind |-> "throw", data |-> <<>>]
Data(d) == [kind |-> "data", data |-> d]
AllOutcomes == {Throw} \cup {Data(d) : d \in SingleOutputs \cup EnsembleOutputs}
\* the answers to the passes of an ensemble, then the answer to the fallback pass
Feeds(paddings) ==
  IF Len(paddings) = 1
    THEN {<<a, b>> : a \in {Throw} \cup {Data(d) : d \in SingleOutputs},
                     b \in {Throw, Data(<<460>>), Data(<<200, 800>>)}}
    ELSE {f \o <<b>> :
            f \in [1..Len(paddings) -> {Throw} \cup {Data(d) : d \in EnsembleOutputs}],
            b \in {Throw, Data(<<460>>)}}

\* CONFIG.TTA_PADDINGS: the shipped value and the one its comment proposes
Ensembles == {<<FACE_PADDING>>, <<20, FACE_PADDING, 30>>}

VARIABLES
  \* chrome.storage.local and chrome.declarativeNetRequest
  consentGiven, isMinor, verificationAllowedUntil, rules,
  \* the consent page
  consentWindow,
  \* the popup page: lifecycle and buttons
  popup, startBtnDisabled, stopBtnDisabled,
  \* popup.js state object
  stream, running, session, lastMinorState, isAnalyzing,
  \* the media side: live camera streams, <video>.paused
  live, videoPaused,
  \* popup UI
  resultText, errorBadge,
  \* in-flight startCamera and analyzeFrame invocations
  starts, an,
  \* pending setTimeout callbacks
  autoStopTimers, errorTimers,
  \* SET_SAFE requests on their way to, and inside, the background
  msgs, handlers,
  \* Date.now(), start requests so far, the configured ensemble
  now, clicks, ensemble,
  \* the classifier's answers, pass by pass, when they are fixed in advance
  feed,
  \* the face detector (state.hasDetector, state.blaze and what estimateFaces
  \* does) and the video element's videoWidth x videoHeight
  detector, videoSize,
  \* the background's console: onInstalled warned that it could not enable
  installWarned,
  \* the gate content script in a tab: its overlay is on the page; the stored
  \* value a check has read and not yet acted on (<<>> when no check runs)
  overlay, gateRead,
  \* the full-page analyzer (web_script.js): its own lastMinorState, its
  \* isProcessing flag and the result it shows; the OPEN_VERIFICATION message of the gate overlay's
  \* button: "none", "sent", or "unanswered" (the listener ran, nothing
  \* will call sendResponse)
  webLastMinorState, isProcessing, webResult, openReq,
  \* the consent page (consent.js): consentCheckbox.checked, acceptBtn.disabled,
  \* the accept button's text, accept handlers waiting for storage.set
  consentChecked, acceptBtnDisabled, acceptText, saving,
  \* observer: the Verdict handed to this popup's latest updateSafeSearch call
  lastVerdict

store == <<consentGiven, isMinor, verificationAllowedUntil, rules>>
buttons == <<startBtnDisabled, stopBtnDisabled>>
camera == <<stream, running, live, videoPaused>>
ui == <<resultText, errorBadge>>
timers == <<autoStopTimers, errorTimers>>
bg == <<msgs, handlers>>
gate == <<overlay, gateRead>>
pages == <<webLastMinorState, isProcessing, webResult, openReq>>
consentPage == <<consentChecked, acceptBtnDisabled, acceptText, saving>>
env == <<now, clicks, ensemble, feed, detector, videoSize, installWarned, gate,
         pages, consentPage>>
vars == <<store, consentWindow, popup, buttons, camera, session, lastMinorState,
          isAnalyzing, ui, starts, an, timers, bg, env, lastVerdict>>

\* what a cycle may leave behind: the cache, the stored Verdict, the rules, the window
Persistent == <<lastMinorState, isMinor, rules, verificationAllowedUntil>>

Remove(s, i) == SubSeq(s, 1, i - 1) \o SubSeq(s, i + 1, Len(s))

RECURSIVE Sum(_)
Sum(s) == IF s = <<>> THEN 0 ELSE Head(s) + Sum(Tail(s))

\* ---- pure pieces of the code ----

\* variant: the gate lets everybody through
checkConsentAlways(given) == TRUE

\* checkConsent: true iff the stored consentGiven is truthy
checkConsent(given) == given

\* variant: the early return is missing
NeedsUpdateAlways(last, verdict) == TRUE

\* updateSafeSearch, the early return: a call is needed iff the cache differs
NeedsUpdate(last, verdict) == last # verdict

\* variant: the guard flag is not looked at
AnalysisBusyNever(flag) == FALSE

\* analyzeFrame, the re-entrancy guard
AnalysisBusy(flag) == flag

Min(a, b) == IF a <= b THEN a ELSE b
Max(a, b) == IF a >= b THEN a ELSE b
Abs(x) == IF x >= 0 THEN x ELSE 0 - x

\* Math.exp on tenths from -3.0 to 3.0: ExpTable[d + 31] is 100000 * e^(d/10)
ExpTable ==
  <<4979, 5502, 6081, 6721, 7427, 8208, 9072, 10026, 11080, 12246, 13534, 14957,
    16530, 18268, 20190, 22313, 24660, 27253, 30119, 33287, 36788, 40657, 44933,
    49659, 54881, 60653, 67032, 74082, 81873, 90484, 100000, 110517, 122140,
    134986, 149182, 164872, 182212, 201375, 222554, 245960, 271828, 300417,
    332012, 366930, 405520, 448169, 495303, 547395, 604965, 668589, 738906,
    816617, 902501, 997418, 1102318, 1218249, 1346374, 1487973, 1644465,
    1817415, 2008554>>
\* Math.exp(x), x in thousandths and a multiple of 100; the result in 1/100000
Exp(x) == ExpTable[(x \div 100) + 31]
\* a / b to the nearest thousandth
Ratio(a, b) == (1000 * a + b \div 2) \div b

\* variant: a length-1 value is always read as a logit
interpretOutputAsLogit(outputData) ==
  IF Len(outputData) = 0 THEN <<>>
  ELSE IF Len(outputData) = 1
    THEN LET rawValue == outputData[1]
             probability == Ratio(Exp(0), Exp(0) + Exp(0 - rawValue))
         IN <<Max(0, Min(1000, probability))>>
  ELSE IF Len(outputData) = 2
    THEN LET max == Max(outputData[1], outputData[2])
             exps == <<Exp(outputData[1] - max), Exp(outputData[2] - max)>>
             sum == exps[1] + exps[2]
         IN <<Max(0, Min(1000, Ratio(exps[2], sum)))>>
  ELSE <<>>

\* variant: a length-2 output is read as two probabilities, index 1 returned
interpretOutputIndex1Raw(outputData) ==
  IF Len(outputData) = 0 THEN <<>>
  ELSE IF Len(outputData) = 1
    THEN LET rawValue == outputData[1]
             probability == IF rawValue >= 0 /\ rawValue <= 1000
                              THEN rawValue
                              ELSE Ratio(Exp(0), Exp(0) + Exp(0 - rawValue))
         IN <<Max(0, Min(1000, probability))>>
  ELSE IF Len(outputData) = 2
    THEN <<Max(0, Min(1000, outputData[2]))>>
  ELSE <<>>

\* variant: the class order is swapped, index 0 is read as "major"
interpretOutputIndex0(outputData) ==
  IF Len(outputData) = 0 THEN <<>>
  ELSE IF Len(outputData) = 1
    THEN LET rawValue == outputData[1]
             probability == IF rawValue >= 0 /\ rawValue <= 1000
                              THEN rawValue
                              ELSE Ratio(Exp(0), Exp(0) + Exp(0 - rawValue))
         IN <<Max(0, Min(1000, probability))>>
  ELSE IF Len(outputData) = 2
    THEN LET max == Max(outputData[1], outputData[2])
             exps == <<Exp(outputData[1] - max), Exp(outputData[2] - max)>>
             sum == exps[1] + exps[2]
         IN <<Max(0, Min(1000, Ratio(exps[1], sum)))>>
  ELSE <<>>

\* interpretOutputToProbability: <<>> is null, <<p>> the probability of "major"
interpretOutputToProbability(outputData) ==
  IF Len(outputData) = 0 THEN <<>>
  ELSE IF Len(outputData) = 1
    THEN LET rawValue == outputData[1]
             probability == IF rawValue >= 0 /\ rawValue <= 1000
                              THEN rawValue
                              ELSE Ratio(Exp(0), Exp(0) + Exp(0 - rawValue))
         IN <<Max(0, Min(1000, probability))>>
  ELSE IF Len(outputData) = 2
    THEN LET max == Max(outputData[1], outputData[2])
             exps == <<Exp(outputData[1] - max), Exp(outputData[2] - max)>>
             sum == exps[1] + exps[2]
         IN <<Max(0, Min(1000, Ratio(exps[2], sum)))>>
  ELSE <<>>

\* the probability each outcome yields, <<>> if the pass threw
ProbTable ==
  [out \in AllOutcomes |->
     IF out.kind = "throw" THEN <<>> ELSE interpretOutputToProbability(out.data)]
PassProb(out) == ProbTable[out]

\* the pass loop's validity test on interpretOutputToProbability's result
PassValid(out) ==
  /\ PassProb(out) # <<>>
  /\ PassProb(out)[1] >= 0 /\ PassProb(out)[1] <= 1000

\* variant: the threshold of the full-page analyzer, 0.5
PredictionAtHalf(ps) == IF 2 * Sum(ps) >= 1000 * Len(ps) THEN "MAJOR" ELSE "MINOR"

\* analyzeFrame, the threshold: MAJOR iff the mean is >= 0.52
Prediction(ps) == IF Sum(ps) >= MAJOR_THRESHOLD * Len(ps) THEN "MAJOR" ELSE "MINOR"

\* ---- analyzeFrame: the statistics of the valid passes ----
\* A confidence is a numerator: for n passes, 1.0 is ConfUnit * n, so that
\* agreement (votes / n) and every product the code forms stay whole numbers.
ConfUnit == 2000 * 1000
One(n) == ConfUnit * n
\* 0.95 and 0.55
ConfCap(n) == (One(n) \div 100) * 95
ConfFloor(n) == (One(n) \div 100) * 55

RECURSIVE SumSq(_)
SumSq(s) == IF s = <<>> THEN 0 ELSE Head(s) * Head(s) + SumSq(Tail(s))
\* Math.min(...allProbabilities), Math.max(...allProbabilities)
RECURSIVE MinOf(_)
MinOf(s) == IF Len(s) = 1 THEN Head(s) ELSE Min(Head(s), MinOf(Tail(s)))
RECURSIVE MaxOf(_)
MaxOf(s) == IF Len(s) = 1 THEN Head(s) ELSE Max(Head(s), MaxOf(Tail(s)))
\* allProbabilities.filter(p => p >= 0.5).length
RECURSIVE MajorVotes(_)
MajorVotes(s) ==
  IF s = <<>> THEN 0
  ELSE (IF Head(s) >= 500 THEN 1 ELSE 0) + MajorVotes(Tail(s))

\* distanceFromThreshold = |avgProb - 0.5|, as a numerator over 2000 * n
Distance(ps) == Abs(2 * Sum(ps) - 1000 * Len(ps))
\* stdDev < 0.1, stdDev > 0.15: the variance times n^2 is n * SumSq - Sum^2
\* (variant first: the sample standard deviation, dividing by n - 1)
StdDevBelow10Sample(ps) ==
  Len(ps) * SumSq(ps) - Sum(ps) * Sum(ps) < 100 * 100 * Len(ps) * (Len(ps) - 1)
StdDevBelow10(ps) ==
  Len(ps) * SumSq(ps) - Sum(ps) * Sum(ps) < 100 * 100 * Len(ps) * Len(ps)
StdDevAbove15(ps) ==
  Len(ps) * SumSq(ps) - Sum(ps) * Sum(ps) > 150 * 150 * Len(ps) * Len(ps)

\* variant: agreement counts the passes on the side of the first pass
AggregateConfidenceFirstSide(ps) ==
  LET n == Len(ps) IN
  IF n = 1
    THEN Min(ConfCap(n), One(n) \div 2 + 1500 * Distance(ps))
    ELSE LET range == MaxOf(ps) - MinOf(ps)
             majorVotes == MajorVotes(ps)
             minorVotes == n - majorVotes
             agreement == (IF ps[1] >= 500 THEN majorVotes ELSE minorVotes) * ConfUnit
             boosted == IF StdDevBelow10(ps) /\ range < 200
                          THEN Min(ConfCap(n), (agreement * 6) \div 5)
                          ELSE agreement
             far == Min(ConfCap(n), boosted + 400 * Distance(ps))
         IN IF StdDevAbove15(ps) \/ range > 300 THEN (far * 17) \div 20 ELSE far

\* the confidence before the final clamp
AggregateConfidence(ps) ==
  LET n == Len(ps) IN
  IF n = 1
    THEN Min(ConfCap(n), One(n) \div 2 + 1500 * Distance(ps))
    ELSE LET range == MaxOf(ps) - MinOf(ps)
             majorVotes == MajorVotes(ps)
             minorVotes == n - majorVotes
             agreement == Max(majorVotes, minorVotes) * ConfUnit
             boosted == IF StdDevBelow10(ps) /\ range < 200
                          THEN Min(ConfCap(n), (agreement * 6) \div 5)
                          ELSE agreement
             far == Min(ConfCap(n), boosted + 400 * Distance(ps))
         IN IF StdDevAbove15(ps) \/ range > 300 THEN (far * 17) \div 20 ELSE far

\* variant: only the upper clamp
ClampConfidenceCapOnly(c, n) == Min(ConfCap(n), c)

\* confidence = Math.max(0.55, Math.min(0.95, confidence))
ClampConfidence(c, n) == Max(ConfFloor(n), Min(ConfCap(n), c))

\* variant: <= in place of <
NearThresholdInclusive(ps, verdict) ==
  LET ref == IF verdict = "MINOR" THEN 1000 - MAJOR_THRESHOLD ELSE MAJOR_THRESHOLD
  IN Abs(Sum(ps) - ref * Len(ps)) <= 80 * Len(ps)

\* thresholdDistance < 0.08 against 0.52 (MAJOR) or 1 - 0.52 (MINOR)
NearThreshold(ps, verdict) ==
  LET ref == IF verdict = "MINOR" THEN 1000 - MAJOR_THRESHOLD ELSE MAJOR_THRESHOLD
  IN Abs(Sum(ps) - ref * Len(ps)) < 80 * Len(ps)

\* the confidence after the adjustment for a mean close to the threshold
AdjustConfidence(c, ps, verdict) ==
  IF NearThreshold(ps, verdict)
    THEN Max(ConfFloor(Len(ps)), (c * 17) \div 20)
    ELSE c

\* the result object; probability is sum / inferenceCount
Result(ps) ==
  [prediction |-> Prediction(ps),
   confidence |-> AdjustConfidence(ClampConfidence(AggregateConfidence(ps), Len(ps)),
                                   ps, Prediction(ps)),
   sum |-> Sum(ps),
   inferenceCount |-> Len(ps)]
\* no result yet
NoResult == [prediction |-> NULL, confidence |-> 0, sum |-> 0, inferenceCount |-> 0]

\* web_script.js before its first analysis: nothing shown
NoWebResult == [prediction |-> NULL, probability |-> 0]

\* ---- region selection ----
\* A face box is [topLeft, bottomRight, probability]: coordinates in half
\* pixels (201 is 100.5 px), probability in thousandths, -1 when the detector
\* gave none. A canvas is [width, height] and a region [x, y, width, height]
\* in whole pixels; cropped tells a new canvas from the source canvas itself.
Box(x1, y1, x2, y2, p) ==
  [topLeft |-> <<x1, y1>>, bottomRight |-> <<x2, y2>>, probability |-> p]
\* Math.floor and Math.ceil of a coordinate given in half pixels
Floor(h) == h \div 2
Ceil(h) == 0 - ((0 - h) \div 2)
\* elements.video.videoWidth || 640, elements.video.videoHeight || 480
DefaultVideo == [width |-> 640, height |-> 480]
\* state.hasDetector is false: BlazeFace was not there or failed to load
NoDetector == [kind |-> "absent", results |-> <<>>]
NoRegion == [x |-> 0, y |-> 0, width |-> 0, height |-> 0, cropped |-> FALSE]
FullFrame(sourceCanvas) ==
  [x |-> 0, y |-> 0, width |-> sourceCanvas.width,
   height |-> sourceCanvas.height, cropped |-> FALSE]

\* width * height as the selection loop computes it, in quarter square pixels
Area(face) ==
  (face.bottomRight[1] - face.topLeft[1]) * (face.bottomRight[2] - face.topLeft[2])
\* the loop over faces from index k on: the first face of the largest area
RECURSIVE LargestFace(_, _, _, _)
LargestFace(faces, k, largestFace, maxArea) ==
  IF k > Len(faces) THEN largestFace
  ELSE IF Area(faces[k]) > maxArea
    THEN LargestFace(faces, k + 1, faces[k], Area(faces[k]))
    ELSE LargestFace(faces, k + 1, largestFace, maxArea)

\* variant: a face of exactly the minimum size is too small as well
FaceTooSmallInclusive(faceWidth, faceHeight) ==
  faceWidth <= MIN_FACE_SIZE \/ faceHeight <= MIN_FACE_SIZE
\* the size test on the face rounded outward to whole pixels
FaceTooSmall(faceWidth, faceHeight) ==
  faceWidth < MIN_FACE_SIZE \/ faceHeight < MIN_FACE_SIZE

\* cropFaceRegion: the rectangle of sourceCanvas that is preprocessed
cropFaceRegion(sourceCanvas, faces, overridePaddingPct) ==
  IF faces = <<>> THEN FullFrame(sourceCanvas)
  ELSE
    LET largestFace == LargestFace(faces, 1, faces[1], 0)
        paddingPercent == Max(0, Min(50, overridePaddingPct))
        x1 == Floor(largestFace.topLeft[1])
        y1 == Floor(largestFace.topLeft[2])
        x2 == Ceil(largestFace.bottomRight[1])
        y2 == Ceil(largestFace.bottomRight[2])
        faceWidth == x2 - x1
        faceHeight == y2 - y1
    IN IF FaceTooSmall(faceWidth, faceHeight) THEN FullFrame(sourceCanvas)
       ELSE
         LET padX == (faceWidth * paddingPercent) \div 100
             padY == (faceHeight * paddingPercent) \div 100
             cropX == Max(0, x1 - padX)
             cropY == Max(0, y1 - padY)
             cropWidth == Min(sourceCanvas.width - cropX, faceWidth + 2 * padX)
             cropHeight == Min(sourceCanvas.height - cropY, faceHeight + 2 * padY)
         IN [x |-> cropX, y |-> cropY, width |-> cropWidth,
             height |-> cropHeight, cropped |-> TRUE]

\* preprocessImage draws the region's canvas onto the 224 x 224 canvas:
\* drawImage throws InvalidStateError for a canvas with a zero dimension (a
\* negative size assigned to canvas.width leaves the canvas at its default
\* size, so those draw without an exception)
Drawable(region) == region.width # 0 /\ region.height # 0

KeepFace(face) == face.probability = -1 \/ face.probability > 500
\* variant: the faces found before an exception are kept
detectAndDrawFacesKeeps(det) ==
  IF det.kind = "absent" THEN <<>>
  ELSE IF SelectSeq(det.results, KeepFace) = <<>> THEN det.results
  ELSE SelectSeq(det.results, KeepFace)
\* detectAndDrawFaces: null and the empty list are both <<>>
detectAndDrawFaces(det) ==
  IF det.kind # "ok" THEN <<>>
  ELSE IF SelectSeq(det.results, KeepFace) = <<>> THEN det.results
  ELSE SelectSeq(det.results, KeepFace)

\* variant: a one-minute window
AllowedUntilMinute(t) == t + 60 * 1000

\* analyzeFrame, the verification window
AllowedUntil(t) == t + HourMs

\* initialize: typeof isMinor === 'boolean' ? isMinor : null
LoadLastState(stored) == stored

\* rulesToAdd: each rule redirects the matching main_frame and sub_frame
\* requests with one query parameter added or replaced
SafeSearchRules ==
  { [id |-> RULE_ID_GOOGLE, urlFilter |-> "||google.", key |-> "safe",
     value |-> "active"],
    [id |-> RULE_ID_BING, urlFilter |-> "||bing.com", key |-> "adlt",
     value |-> "strict"] }
\* chrome.declarativeNetRequest.updateDynamicRules first removes the rules
\* whose ids are listed, then adds the new ones, atomically; it rejects the
\* update if a rule to add has the id of a rule that is still there
UpdateAccepted(rs, addRules, removeRuleIds) ==
  \A r \in addRules : \A q \in rs : q.id = r.id => q.id \in removeRuleIds
\* variant: the update removes the rules whose ids are not listed
updateDynamicRulesKeepsListed(rs, addRules, removeRuleIds) ==
  {q \in rs : q.id \in removeRuleIds} \cup addRules
updateDynamicRules(rs, addRules, removeRuleIds) ==
  {q \in rs : q.id \notin removeRuleIds} \cup addRules
\* the update each of the two functions asks for
SinkAccepts(rs, minor) ==
  IF minor = "MINOR" THEN UpdateAccepted(rs, SafeSearchRules, {})
  ELSE UpdateAccepted(rs, {}, {RULE_ID_GOOGLE, RULE_ID_BING})
enableSafeSearchRules(rs) == updateDynamicRules(rs, SafeSearchRules, {})
disableSafeSearchRules(rs) ==
  updateDynamicRules(rs, {}, {RULE_ID_GOOGLE, RULE_ID_BING})

\* ---- initial state: the extension freshly installed, popup closed ----
Init ==
  /\ consentGiven = FALSE /\ isMinor = NULL /\ verificationAllowedUntil = 0
  /\ rules = {}
  /\ consentWindow = FALSE
  /\ popup = "closed" /\ startBtnDisabled = FALSE /\ stopBtnDisabled = TRUE
  /\ stream = FALSE /\ running = FALSE /\ session = FALSE
  /\ lastMinorState = NULL /\ isAnalyzing = FALSE
  /\ live = 0 /\ videoPaused = TRUE
  /\ resultText = "-" /\ errorBadge = FALSE
  /\ starts = <<>> /\ an = <<>>
  /\ autoStopTimers = 0 /\ errorTimers = 0
  /\ msgs = <<>> /\ handlers = <<>>
  /\ now = 0 /\ clicks = 0 /\ ensemble \in Ensembles /\ feed = <<>>
  /\ detector = NoDetector /\ videoSize = DefaultVideo
  /\ installWarned = FALSE
  /\ overlay = FALSE /\ gateRead = <<>>
  /\ webLastMinorState = NULL /\ isProcessing = FALSE
  /\ webResult = NoWebResult /\ openReq = "none"
  /\ consentChecked = FALSE /\ acceptBtnDisabled = TRUE
  /\ acceptText = "Accept & Continue" /\ saving = 0
  /\ lastVerdict = NULL

\* the popup page is gone: its script state, timers and streams with it
PopupGone ==
  /\ lastVerdict' = NULL
  /\ popup' = "closed" /\ startBtnDisabled' = FALSE /\ stopBtnDisabled' = TRUE
  /\ stream' = FALSE /\ running' = FALSE /\ session' = FALSE
  /\ lastMinorState' = NULL /\ isAnalyzing' = FALSE
  /\ live' = 0 /\ videoPaused' = TRUE
  /\ resultText' = "-" /\ errorBadge' = FALSE
  /\ starts' = <<>> /\ an' = <<>>
  /\ autoStopTimers' = 0 /\ errorTimers' = 0
  /\ clicks' = 0

\* ---- consent page (consent.js) ----
ConsentAccept ==
  /\ consentWindow
  /\ consentGiven' = TRUE
  /\ consentWindow' = FALSE
  /\ UNCHANGED <<isMinor, verificationAllowedUntil, rules, popup, buttons, camera,
                 session, lastMinorState, isAnalyzing, ui, starts, an, timers, bg,
                 env, lastVerdict>>

ConsentDecline ==
  /\ consentWindow
  /\ consentWindow' = FALSE
  /\ UNCHANGED <<store, popup, buttons, camera, session, lastMinorState,
                 isAnalyzing, ui, starts, an, timers, bg, env, lastVerdict>>

\* ---- popup: initialize() ----
\* Without consent checkConsent opens the consent window and closes the popup;
\* if the window cannot be created the popup stays open with Start disabled and
\* no listeners.  With consent it loads the last state and attaches listeners.
initialize ==
  /\ popup = "closed"
  /\ IF checkConsent(consentGiven)
       THEN /\ popup' = "ready"
            /\ lastMinorState' = LoadLastState(isMinor)
            /\ startBtnDisabled' = FALSE
            /\ consentWindow' = consentWindow
       ELSE /\ \E created \in BOOLEAN :
                 /\ consentWindow' = (consentWindow \/ created)
                 /\ popup' = IF created THEN "closed" ELSE "gated"
                 /\ startBtnDisabled' = ~created
            /\ lastMinorState' = lastMinorState
  /\ UNCHANGED <<store, stopBtnDisabled, camera, session, isAnalyzing, ui, starts,
                 an, timers, bg, env, lastVerdict>>

\* initialize(), the 500 ms poll of a popup opened without consent
ConsentPoll ==
  /\ popup = "gated"
  /\ consentGiven
  /\ popup' = "enabled"
  /\ startBtnDisabled' = FALSE
  /\ UNCHANGED <<store, consentWindow, stopBtnDisabled, camera, session,
                 lastMinorState, isAnalyzing, ui, starts, an, timers, bg, env,
                 lastVerdict>>

\* the user closes the popup (between cycles, the background being idle)
PopupClose ==
  /\ popup # "closed"
  /\ starts = <<>> /\ an = <<>> /\ msgs = <<>> /\ handlers = <<>>
  /\ PopupGone
  /\ UNCHANGED <<store, consentWindow, bg, now, ensemble, feed, detector,
                 videoSize, consentPage, pages, installWarned, gate>>

\* initialize(): initializeModel() preloading the classifier session
ModelPreload ==
  /\ popup = "ready"
  /\ ~session
  /\ session' = TRUE
  /\ UNCHANGED <<store, consentWindow, popup, buttons, camera, lastMinorState,
                 isAnalyzing, ui, starts, an, timers, bg, env, lastVerdict>>

\* ---- popup: stopCamera() ----
stopCamera ==
  IF ~stream /\ ~running
    THEN UNCHANGED <<camera, buttons, an>>
    ELSE /\ running' = FALSE
         /\ startBtnDisabled' = FALSE
         /\ stopBtnDisabled' = TRUE
         /\ stream' = FALSE
         /\ live' = IF stream THEN live - 1 ELSE live
         /\ videoPaused' = TRUE
         /\ an' = [i \in DOMAIN an |-> [an[i] EXCEPT !.stopped = TRUE]]

StopClick ==
  /\ popup = "ready"
  /\ ~stopBtnDisabled
  /\ stopCamera
  /\ UNCHANGED <<store, consentWindow, popup, session, lastMinorState, isAnalyzing,
                 ui, starts, timers, bg, env, lastVerdict>>

\* analyzeFrame's setTimeout(stopCamera, AUTO_STOP_DELAY)
AutoStopFire ==
  /\ autoStopTimers > 0
  /\ autoStopTimers' = autoStopTimers - 1
  /\ stopCamera
  /\ UNCHANGED <<store, consentWindow, popup, session, lastMinorState, isAnalyzing,
                 ui, starts, errorTimers, bg, env, lastVerdict>>

\* analyzeFrame's catch: setTimeout(() => { if (!state.running) stopCamera() })
ErrorTimerFire ==
  /\ errorTimers > 0
  /\ errorTimers' = errorTimers - 1
  /\ IF ~running THEN stopCamera ELSE UNCHANGED <<camera, buttons, an>>
  /\ UNCHANGED <<store, consentWindow, popup, session, lastMinorState, isAnalyzing,
                 ui, starts, autoStopTimers, bg, env, lastVerdict>>

\* ---- popup: startCamera() ----
\* the catch block: the flags are reset, the stream is left as it is
StartCatch(i) ==
  /\ running' = FALSE
  /\ startBtnDisabled' = FALSE
  /\ stopBtnDisabled' = TRUE
  /\ starts' = Remove(starts, i)

\* a click on Start: returns at once while running, else awaits checkConsent
StartClick ==
  /\ popup = "ready"
  /\ ~startBtnDisabled
  /\ clicks < MaxClicks
  /\ clicks' = clicks + 1
  /\ starts' = IF running THEN starts
               ELSE Append(starts, [id |-> clicks + 1, pc |-> "consent"])
  /\ UNCHANGED <<store, consentWindow, popup, buttons, camera, session,
                 lastMinorState, isAnalyzing, ui, an, timers, bg, now, ensemble, feed,
                 detector, videoSize, consentPage, pages, installWarned, gate,
                 lastVerdict>>

\* a click on Start in a popup that was opened without consent: initialize
\* returned before setupEventListeners, the button has no click listener
StartClickNoListener ==
  /\ popup = "enabled"
  /\ ~startBtnDisabled
  /\ clicks < MaxClicks
  /\ clicks' = clicks + 1
  /\ UNCHANGED <<store, consentWindow, popup, buttons, camera, session,
                 lastMinorState, isAnalyzing, ui, starts, an, timers, bg, now,
                 ensemble, feed, detector, videoSize, consentPage, pages, installWarned, gate,
                 lastVerdict>>

\* checkConsent() answered: refused (consent window, popup closed) or passed
StartConsent(i) ==
  /\ starts[i].pc = "consent"
  /\ IF checkConsent(consentGiven)
       THEN /\ startBtnDisabled' = TRUE
            /\ stopBtnDisabled' = TRUE
            /\ starts' = [starts EXCEPT ![i].pc = "gum"]
            /\ UNCHANGED <<consentWindow, popup, camera, session, lastMinorState,
                           isAnalyzing, ui, an, timers, clicks>>
            /\ UNCHANGED lastVerdict
       ELSE /\ consentWindow' = TRUE
            /\ PopupGone
  /\ UNCHANGED <<store, bg, now, ensemble, feed, detector,
                 videoSize, consentPage, pages, installWarned, gate>>

\* getUserMedia resolved: state.stream = stream (a stream held before is
\* overwritten, not stopped)
StartGumOk(i) ==
  /\ starts[i].pc = "gum"
  /\ live' = live + 1
  /\ stream' = TRUE
  /\ starts' = [starts EXCEPT ![i].pc = "video"]
  /\ UNCHANGED <<store, consentWindow, popup, buttons, running, videoPaused,
                 session, lastMinorState, isAnalyzing, ui, an, timers, bg, env,
                 lastVerdict>>

\* getUserMedia rejected (denied, no camera, ...)
StartGumFail(i) ==
  /\ starts[i].pc = "gum"
  /\ StartCatch(i)
  /\ UNCHANGED <<store, consentWindow, popup, stream, live, videoPaused, session,
                 lastMinorState, isAnalyzing, ui, an, timers, bg, env, lastVerdict>>

\* metadata, play(), detector and model ready: running = true
StartVideoOk(i) ==
  /\ starts[i].pc = "video"
  /\ stream
  /\ session' = TRUE
  /\ videoPaused' = FALSE
  /\ running' = TRUE
  /\ startBtnDisabled' = TRUE
  /\ stopBtnDisabled' = FALSE
  /\ starts' = [starts EXCEPT ![i].pc = "settle"]
  /\ UNCHANGED <<store, consentWindow, popup, stream, live, lastMinorState,
                 isAnalyzing, ui, an, timers, bg, env, lastVerdict>>

\* video timeout, play() rejected or initializeModel() failed
StartVideoFail(i) ==
  /\ starts[i].pc = "video"
  /\ StartCatch(i)
  /\ UNCHANGED <<store, consentWindow, popup, stream, live, videoPaused, session,
                 lastMinorState, isAnalyzing, ui, an, timers, bg, env, lastVerdict>>

\* after the guideline delay a paused video is played again; that can reject
StartSettleFail(i) ==
  /\ starts[i].pc = "settle"
  /\ videoPaused
  /\ StartCatch(i)
  /\ UNCHANGED <<store, consentWindow, popup, stream, live, videoPaused, session,
                 lastMinorState, isAnalyzing, ui, an, timers, bg, env, lastVerdict>>

\* after the guideline delay: await analyzeFrame().  analyzeFrame returns at
\* once while an analysis is in flight, else it sets the flag and resets the UI
StartSettleRun(i) ==
  /\ starts[i].pc = "settle"
  /\ videoPaused => stream
  /\ videoPaused' = FALSE
  /\ starts' = Remove(starts, i)
  /\ IF AnalysisBusy(isAnalyzing)
       THEN UNCHANGED <<isAnalyzing, ui, an>>
       ELSE /\ isAnalyzing' = TRUE
            /\ resultText' = "-"
            /\ errorBadge' = FALSE
            /\ an' = Append(an, [id |-> starts[i].id, pc |-> "capture",
                                 padIdx |-> 1, faces |-> <<>>, region |-> NoRegion,
                                 probs |-> <<>>, result |-> NoResult,
                                 stopped |-> FALSE, before |-> Persistent])
  /\ UNCHANGED <<store, consentWindow, popup, buttons, stream, running, live,
                 session, lastMinorState, timers, bg, env, lastVerdict>>

\* ---- popup: analyzeFrame() ----
\* An invocation is [id, pc, padIdx, probs, result] plus two observers: stopped (stopCamera
\* ran since it began) and before (what was persistent when it began).
\* variant: the window write sits in the finally block
AnalyzeCatchWritesWindow(i) ==
  /\ resultText' = "Error"
  /\ errorTimers' = errorTimers + 1
  /\ isAnalyzing' = FALSE
  /\ an' = Remove(an, i)
  /\ verificationAllowedUntil' = AllowedUntil(now)
  /\ UNCHANGED <<errorBadge, autoStopTimers, lastMinorState, msgs, lastVerdict>>

\* variant: no finally block, the flag is cleared on the normal path only
AnalyzeCatchKeepsFlag(i) ==
  /\ resultText' = "Error"
  /\ errorTimers' = errorTimers + 1
  /\ an' = Remove(an, i)
  /\ UNCHANGED <<errorBadge, autoStopTimers, lastMinorState, msgs, lastVerdict,
                 verificationAllowedUntil, isAnalyzing>>

\* the catch and finally blocks
AnalyzeCatch(i) ==
  /\ resultText' = "Error"
  /\ errorTimers' = errorTimers + 1
  /\ isAnalyzing' = FALSE
  /\ an' = Remove(an, i)
  /\ UNCHANGED <<errorBadge, autoStopTimers, lastMinorState, msgs, lastVerdict,
                 verificationAllowedUntil>>

\* the result is shown and updateSafeSearch(isMinor) runs up to its await;
\* allProbabilities is not read again and is dropped from the record
Conclude(i, ps) ==
  LET verdict == Prediction(ps) IN
  /\ resultText' = verdict
  /\ lastVerdict' = verdict
  /\ IF NeedsUpdate(lastMinorState, verdict)
       THEN /\ lastMinorState' = verdict
            /\ msgs' = Append(msgs, [from |-> an[i].id, minor |-> verdict])
            /\ an' = [an EXCEPT ![i].pc = "await", ![i].probs = <<>>,
                                 ![i].result = Result(ps)]
       ELSE /\ UNCHANGED <<lastMinorState, msgs>>
            /\ an' = [an EXCEPT ![i].pc = "window", ![i].probs = <<>>,
                                 ![i].result = Result(ps)]
  /\ UNCHANGED <<errorBadge, timers, isAnalyzing, verificationAllowedUntil>>

\* frame captured, faces detected, the video played if paused
AnalyzeCapture(i) ==
  /\ an[i].pc = "capture"
  /\ IF session
       THEN /\ an' = [an EXCEPT ![i].pc = "pass",
                                 ![i].faces = detectAndDrawFaces(detector)]
            /\ UNCHANGED <<ui, timers, isAnalyzing, lastMinorState, msgs,
                           lastVerdict, verificationAllowedUntil>>
       ELSE AnalyzeCatch(i)
  /\ UNCHANGED <<consentGiven, isMinor, rules, consentWindow, popup, buttons,
                 camera, session, starts, handlers, env>>

\* variant: runInference is not awaited, the next pass is dispatched with it
AnalyzePassNoAwait(i) ==
  /\ an[i].pc = "pass"
  /\ an' = [an EXCEPT ![i].pc = "infer",
                      ![i].padIdx = Min(an[i].padIdx + 1, Len(ensemble)),
                      ![i].region = cropFaceRegion(videoSize, an[i].faces,
                                                   ensemble[an[i].padIdx])]
  /\ UNCHANGED <<store, consentWindow, popup, buttons, camera, session,
                 lastMinorState, isAnalyzing, ui, starts, timers, bg, env,
                 lastVerdict>>

\* one ensemble pass is dispatched to the classifier
AnalyzePass(i) ==
  /\ an[i].pc = "pass"
  /\ an' = [an EXCEPT ![i].pc = "infer",
                      ![i].region = cropFaceRegion(videoSize, an[i].faces,
                                                   ensemble[an[i].padIdx])]
  /\ UNCHANGED <<store, consentWindow, popup, buttons, camera, session,
                 lastMinorState, isAnalyzing, ui, starts, timers, bg, env,
                 lastVerdict>>

\* a pass yields a probability: preprocessImage drew its region, runInference
\* returned and the interpreted output passed the validity test
PassOk(i, out) == Drawable(an[i].region) /\ PassValid(out)

\* variant: a pass that fails ends the cycle
AnalyzeInferFatal(i, out) ==
  /\ an[i].pc = "infer"
  /\ LET ps == an[i].probs \o PassProb(out) IN
       IF ~PassOk(i, out) THEN AnalyzeCatch(i)
       ELSE IF an[i].padIdx < Len(ensemble)
         THEN /\ an' = [an EXCEPT ![i].pc = "pass", ![i].probs = ps,
                                  ![i].padIdx = an[i].padIdx + 1]
              /\ UNCHANGED <<ui, timers, isAnalyzing, lastMinorState, msgs,
                             lastVerdict, verificationAllowedUntil>>
         ELSE Conclude(i, ps)
  /\ UNCHANGED <<consentGiven, isMinor, rules, consentWindow, popup, buttons,
                 camera, session, starts, handlers, env>>

\* the pass came back; after the last one: fallback, or the result
AnalyzeInfer(i, out) ==
  /\ an[i].pc = "infer"
  /\ LET ps == IF PassOk(i, out) THEN an[i].probs \o PassProb(out) ELSE an[i].probs IN
       IF an[i].padIdx < Len(ensemble)
         THEN /\ an' = [an EXCEPT ![i].pc = "pass", ![i].probs = ps,
                                  ![i].padIdx = an[i].padIdx + 1]
              /\ UNCHANGED <<ui, timers, isAnalyzing, lastMinorState, msgs,
                             lastVerdict, verificationAllowedUntil>>
         ELSE IF ps = <<>>
           THEN /\ an' = [an EXCEPT ![i].pc = "fallback",
                                     ![i].region = cropFaceRegion(videoSize,
                                                     an[i].faces, FACE_PADDING)]
                /\ UNCHANGED <<ui, timers, isAnalyzing, lastMinorState, msgs,
                               lastVerdict, verificationAllowedUntil>>
           ELSE Conclude(i, ps)
  /\ UNCHANGED <<consentGiven, isMinor, rules, consentWindow, popup, buttons,
                 camera, session, starts, handlers, env>>

\* variant: a fallback pass without a probability counts as probability 0
AnalyzeFallbackNullAsZero(i, out) ==
  /\ an[i].pc = "fallback"
  /\ IF PassOk(i, out) THEN Conclude(i, PassProb(out)) ELSE Conclude(i, <<0>>)
  /\ UNCHANGED <<consentGiven, isMinor, rules, consentWindow, popup, buttons,
                 camera, session, starts, handlers, env>>

\* the single fallback pass (CONFIG.FACE_PADDING) came back
AnalyzeFallback(i, out) ==
  /\ an[i].pc = "fallback"
  /\ IF PassOk(i, out) THEN Conclude(i, PassProb(out)) ELSE AnalyzeCatch(i)
  /\ UNCHANGED <<consentGiven, isMinor, rules, consentWindow, popup, buttons,
                 camera, session, starts, handlers, env>>

\* updateSafeSearch after the response and its 500 ms sleep: the badges
AnalyzeResponse(i) ==
  /\ an[i].pc \in {"respOk", "respErr"}
  /\ errorBadge' = (an[i].pc = "respErr")
  /\ an' = [an EXCEPT ![i].pc = "window"]
  /\ UNCHANGED <<store, consentWindow, popup, buttons, camera, session,
                 lastMinorState, isAnalyzing, resultText, starts, timers, bg, env,
                 lastVerdict>>

\* variant: the window is extended only when the policy call went through
AnalyzeWindowIfOk(i) ==
  /\ an[i].pc = "window"
  /\ verificationAllowedUntil' =
       IF errorBadge THEN verificationAllowedUntil ELSE AllowedUntil(now)
  /\ autoStopTimers' = autoStopTimers + 1
  /\ isAnalyzing' = FALSE
  /\ an' = Remove(an, i)
  /\ UNCHANGED <<consentGiven, isMinor, rules, consentWindow, popup, buttons,
                 camera, session, lastMinorState, ui, starts, errorTimers, bg, env,
                 lastVerdict>>

\* the verification window is written, the auto-stop timer set, the flag cleared
AnalyzeWindow(i) ==
  /\ an[i].pc = "window"
  /\ verificationAllowedUntil' = AllowedUntil(now)
  /\ autoStopTimers' = autoStopTimers + 1
  /\ isAnalyzing' = FALSE
  /\ an' = Remove(an, i)
  /\ UNCHANGED <<consentGiven, isMinor, rules, consentWindow, popup, buttons,
                 camera, session, lastMinorState, ui, starts, errorTimers, bg, env,
                 lastVerdict>>

\* ---- background service worker ----
\* onMessage -> setMinorMode: the Verdict is stored first
setMinorMode ==
  /\ msgs # <<>>
  /\ isMinor' = Head(msgs).minor
  /\ handlers' = Append(handlers, Head(msgs))
  /\ msgs' = Tail(msgs)
  /\ UNCHANGED <<consentGiven, verificationAllowedUntil, rules, consentWindow,
                 popup, buttons, camera, session, lastMinorState, isAnalyzing, ui,
                 starts, an, timers, env, lastVerdict>>

\* sendResponse reaches the updateSafeSearch call that awaits it
Respond(h, pc) ==
  an' = [i \in DOMAIN an |->
           IF an[i].id = h.from /\ an[i].pc = "await"
             THEN [an[i] EXCEPT !.pc = pc] ELSE an[i]]

\* enableSafeSearchRules / disableSafeSearchRules: updateDynamicRules resolved
SinkOk(j) ==
  /\ j \in DOMAIN handlers
  /\ SinkAccepts(rules, handlers[j].minor)
  /\ rules' = IF handlers[j].minor = "MINOR"
                THEN enableSafeSearchRules(rules)
                ELSE disableSafeSearchRules(rules)
  /\ Respond(handlers[j], "respOk")
  /\ handlers' = Remove(handlers, j)
  /\ UNCHANGED <<consentGiven, isMinor, verificationAllowedUntil, consentWindow,
                 popup, buttons, camera, session, lastMinorState, isAnalyzing, ui,
                 starts, timers, msgs, env, lastVerdict>>

\* updateDynamicRules rejected: {success: false, error}; the caller is told,
\* the popup through sendResponse, onInstalled (from = 0) warns on the console
SinkFail(j) ==
  /\ j \in DOMAIN handlers
  /\ Respond(handlers[j], "respErr")
  /\ handlers' = Remove(handlers, j)
  /\ installWarned' = (installWarned \/ handlers[j].from = 0)
  /\ UNCHANGED <<store, consentWindow, popup, buttons, camera, session,
                 lastMinorState, isAnalyzing, ui, starts, timers, msgs, now,
                 clicks, ensemble, feed, detector, videoSize, consentPage, pages, gate, lastVerdict>>

\* the rejection Chrome itself produces: a rule to add has an id in use
SinkReject(j) ==
  /\ j \in DOMAIN handlers
  /\ ~SinkAccepts(rules, handlers[j].minor)
  /\ SinkFail(j)

\* chrome.runtime.onInstalled (install or update): the stored Verdict is read
\* and, if it is minor, enableSafeSearchRules is called
onInstalled ==
  /\ \A j \in DOMAIN handlers : handlers[j].from # 0
  /\ isMinor = "MINOR"
  /\ handlers' = Append(handlers, [from |-> 0, minor |-> "MINOR"])
  /\ installWarned' = FALSE
  /\ UNCHANGED <<store, consentWindow, popup, buttons, camera, session,
                 lastMinorState, isAnalyzing, ui, starts, an, timers, msgs, now,
                 clicks, ensemble, feed, detector, videoSize, consentPage, pages, gate, lastVerdict>>

\* ---- the clock ----
\* Date.now() is read in one place, the verification-window write; the clock
\* advances are taken where they can be observed, just before such a read
Tick ==
  /\ \E i \in DOMAIN an : an[i].pc = "window"
  /\ now < MaxTicks * TickMs
  /\ now' = now + TickMs
  /\ UNCHANGED <<store, consentWindow, popup, buttons, camera, session,
                 lastMinorState, isAnalyzing, ui, starts, an, timers, bg, clicks,
                 ensemble, feed, detector, videoSize, consentPage, pages, installWarned,
                 gate, lastVerdict>>

Next ==
  \/ ConsentAccept \/ ConsentDecline
  \/ initialize \/ ConsentPoll \/ PopupClose \/ ModelPreload
  \/ StopClick \/ AutoStopFire \/ ErrorTimerFire
  \/ StartClick \/ StartClickNoListener
  \/ \E i \in DOMAIN starts :
       \/ StartConsent(i) \/ StartGumOk(i) \/ StartGumFail(i)
       \/ StartVideoOk(i) \/ StartVideoFail(i)
       \/ StartSettleFail(i) \/ StartSettleRun(i)
  \/ \E i \in DOMAIN an :
       \/ AnalyzeCapture(i) \/ AnalyzePass(i)
       \/ \E out \in Outcomes : AnalyzeInfer(i, out)
       \/ \E out \in Outcomes : AnalyzeFallback(i, out)
       \/ AnalyzeResponse(i) \/ AnalyzeWindow(i)
  \/ setMinorMode
  \/ \E j \in DOMAIN handlers : SinkOk(j) \/ SinkFail(j)
  \/ Tick

Spec == Init /\ [][Next]_vars

\* ---- one analysis cycle against answers fixed in advance ----
\* The popup is where analyzeFrame has captured the frame and is about to run
\* the first pass; the store is fresh, Enforced or Cleared.
CycleInit ==
  /\ consentGiven = TRUE /\ consentWindow = FALSE
  /\ \E prior \in {NULL} \cup Verdicts :
       /\ isMinor = prior /\ lastMinorState = LoadLastState(prior)
       /\ rules = IF prior = "MINOR" THEN SafeSearchRules ELSE {}
       /\ verificationAllowedUntil = IF prior = NULL THEN 0 ELSE AllowedUntil(0)
  /\ popup = "ready" /\ startBtnDisabled = TRUE /\ stopBtnDisabled = FALSE
  /\ stream = TRUE /\ running = TRUE /\ session = TRUE
  /\ isAnalyzing = TRUE
  /\ live = 1 /\ videoPaused = FALSE
  /\ resultText = "-" /\ errorBadge = FALSE
  /\ starts = <<>>
  /\ an = <<[id |-> 1, pc |-> "pass", padIdx |-> 1, faces |-> <<>>,
             region |-> NoRegion, probs |-> <<>>,
             result |-> NoResult, stopped |-> FALSE, before |-> Persistent]>>
  /\ autoStopTimers = 0 /\ errorTimers = 0
  /\ msgs = <<>> /\ handlers = <<>>
  /\ now = TickMs /\ clicks = 1
  /\ ensemble \in Ensembles /\ feed \in Feeds(ensemble)
  /\ detector = NoDetector /\ videoSize = DefaultVideo
  /\ installWarned = FALSE
  /\ overlay = FALSE /\ gateRead = <<>>
  /\ webLastMinorState = NULL /\ isProcessing = FALSE
  /\ webResult = NoWebResult /\ openReq = "none"
  /\ consentChecked = FALSE /\ acceptBtnDisabled = TRUE
  /\ acceptText = "Accept & Continue" /\ saving = 0
  /\ lastVerdict = NULL

CycleNext ==
  \/ \E i \in DOMAIN an :
       \/ AnalyzePass(i)
       \/ AnalyzeInfer(i, feed[an[i].padIdx])
       \/ AnalyzeFallback(i, feed[Len(feed)])
       \/ AnalyzeResponse(i) \/ AnalyzeWindow(i)
  \/ setMinorMode
  \/ \E j \in DOMAIN handlers : SinkOk(j) \/ SinkFail(j)

CycleSpec == CycleInit /\ [][CycleNext]_vars

\* ---- one analysis cycle against a detector and a camera fixed in advance ----
\* face boxes (pixels doubled): in the frame, below and at the minimum size,
\* with fractional corners, at the frame's edges, across them and outside
FaceBoxes ==
  { Box(400, 200, 800, 600, 900),      \* 200 x 200 in the middle
    Box(200, 200, 280, 280, 950),      \* 40 x 40
    Box(200, 200, 300, 300, -1),       \* 50 x 50
    Box(201, 200, 300, 301, 800),      \* 49.5 x 50.5, covering 50 x 51 pixels
    Box(600, 600, 840, 680, 700),      \* 120 x 40
    Box(20, 20, 220, 220, 600),        \* 100 x 100 near the top left corner
    Box(-40, 100, 200, 400, 300),      \* across the left edge
    Box(1120, 600, 1320, 840, 850),    \* across the right edge
    Box(1200, 720, 1400, 1000, 400),   \* across the bottom right corner
    Box(1330, 200, 1530, 400, 750),    \* to the right of the frame
    Box(1400, 200, 1600, 400, -1),     \* further to the right of the frame
    Box(-100, -100, 1400, 1000, 990) } \* larger than the frame
FaceLists ==
  {<<>>} \cup {<<a>> : a \in FaceBoxes}
         \cup {<<a, b>> : a \in FaceBoxes, b \in FaceBoxes}
\* no detector; estimateFaces or the overlay drawing throws; faces returned
Detectors ==
  {NoDetector} \cup [kind : {"throws", "ok"}, results : FaceLists]
\* padding ensembles: the shipped one, the proposed one, one out of range
RegionEnsembles == Ensembles \cup {<<-10, 60>>}
\* every pass and the fallback get the same answer
RegionFeeds(paddings) ==
  {[k \in 1..(Len(paddings) + 1) |-> o] :
     o \in {Throw, Data(<<460>>), Data(<<2000>>)}}

RegionInit ==
  /\ consentGiven = TRUE /\ consentWindow = FALSE
  /\ isMinor = NULL /\ lastMinorState = NULL /\ rules = {}
  /\ verificationAllowedUntil = 0
  /\ popup = "ready" /\ startBtnDisabled = TRUE /\ stopBtnDisabled = FALSE
  /\ stream = TRUE /\ running = TRUE /\ session = TRUE
  /\ isAnalyzing = TRUE
  /\ live = 1 /\ videoPaused = FALSE
  /\ resultText = "-" /\ errorBadge = FALSE
  /\ starts = <<>>
  /\ an = <<[id |-> 1, pc |-> "capture", padIdx |-> 1, faces |-> <<>>,
             region |-> NoRegion, probs |-> <<>>,
             result |-> NoResult, stopped |-> FALSE, before |-> Persistent]>>
  /\ autoStopTimers = 0 /\ errorTimers = 0
  /\ msgs = <<>> /\ handlers = <<>>
  /\ now = TickMs /\ clicks = 1
  /\ ensemble \in RegionEnsembles /\ feed \in RegionFeeds(ensemble)
  /\ detector \in Detectors /\ videoSize = DefaultVideo
  /\ installWarned = FALSE
  /\ overlay = FALSE /\ gateRead = <<>>
  /\ webLastMinorState = NULL /\ isProcessing = FALSE
  /\ webResult = NoWebResult /\ openReq = "none"
  /\ consentChecked = FALSE /\ acceptBtnDisabled = TRUE
  /\ acceptText = "Accept & Continue" /\ saving = 0
  /\ lastVerdict = NULL

RegionNext ==
  \/ \E i \in DOMAIN an :
       \/ AnalyzeCapture(i) \/ AnalyzePass(i)
       \/ AnalyzeInfer(i, feed[an[i].padIdx])
       \/ AnalyzeFallback(i, feed[Len(feed)])
       \/ AnalyzeResponse(i) \/ AnalyzeWindow(i)
  \/ setMinorMode
  \/ \E j \in DOMAIN handlers : SinkOk(j) \/ SinkFail(j)

RegionSpec == RegionInit /\ [][RegionNext]_vars

\* ---- the background alone, in a browser that refuses no valid update ----
\* The popup has sent the SET_SAFE message of a new Verdict and awaits the
\* response; the store is fresh or what earlier cycles left, failed sink calls
\* included; the extension may be updated at any time.
SinkInit ==
  /\ consentGiven = TRUE /\ consentWindow = FALSE
  /\ \E verdict \in Verdicts :
       /\ isMinor \in {NULL} \cup (Verdicts \ {verdict})
       /\ rules \in IF isMinor = NULL THEN {{}} ELSE {{}, SafeSearchRules}
       /\ lastMinorState = verdict /\ resultText = verdict
       /\ lastVerdict = verdict
       /\ msgs = <<[from |-> 1, minor |-> verdict]>>
       /\ verificationAllowedUntil = IF isMinor = NULL THEN 0 ELSE AllowedUntil(0)
       /\ an = <<[id |-> 1, pc |-> "await", padIdx |-> 1, faces |-> <<>>,
                  region |-> FullFrame(DefaultVideo), probs |-> <<>>,
                  result |-> Result(IF verdict = "MINOR" THEN <<460>> ELSE <<881>>),
                  stopped |-> FALSE,
                  before |-> <<isMinor, isMinor, rules, verificationAllowedUntil>>]>>
  /\ popup = "ready" /\ startBtnDisabled = TRUE /\ stopBtnDisabled = FALSE
  /\ stream = TRUE /\ running = TRUE /\ session = TRUE
  /\ isAnalyzing = TRUE
  /\ live = 1 /\ videoPaused = FALSE
  /\ errorBadge = FALSE
  /\ starts = <<>>
  /\ autoStopTimers = 0 /\ errorTimers = 0
  /\ handlers = <<>>
  /\ now = TickMs /\ clicks = 1
  /\ ensemble = <<FACE_PADDING>> /\ feed = <<>>
  /\ detector = NoDetector /\ videoSize = DefaultVideo
  /\ installWarned = FALSE
  /\ overlay = FALSE /\ gateRead = <<>>
  /\ webLastMinorState = NULL /\ isProcessing = FALSE
  /\ webResult = NoWebResult /\ openReq = "none"
  /\ consentChecked = FALSE /\ acceptBtnDisabled = TRUE
  /\ acceptText = "Accept & Continue" /\ saving = 0

\* the user closes the popup whatever it is doing; a response that arrives
\* later finds nobody
PopupCloseAnytime ==
  /\ popup # "closed"
  /\ PopupGone
  /\ UNCHANGED <<store, consentWindow, bg, now, ensemble, feed, detector,
                 videoSize, consentPage, pages, installWarned, gate>>

SinkNext ==
  \/ onInstalled \/ PopupCloseAnytime
  \/ setMinorMode
  \/ \E j \in DOMAIN handlers : SinkOk(j) \/ SinkReject(j)
  \/ \E i \in DOMAIN an : AnalyzeResponse(i) \/ AnalyzeWindow(i)

SinkSpec == SinkInit /\ [][SinkNext]_vars

\* ---- the popup closed and reopened at any time ----
\* From the states of SinkInit: the popup may be closed while its message is
\* under way, opened again and used for further cycles; camera and model work.
\* (the close is taken with at most one SET_SAFE call under way)
PopupCloseWaiting == Len(msgs) + Len(handlers) <= 1 /\ PopupCloseAnytime

RestartNext ==
  \/ PopupCloseWaiting \/ initialize \/ ModelPreload \/ StartClick
  \/ \E i \in DOMAIN starts :
       \/ StartConsent(i) \/ StartGumOk(i) \/ StartVideoOk(i) \/ StartSettleRun(i)
  \/ \E i \in DOMAIN an :
       \/ AnalyzeCapture(i) \/ AnalyzePass(i)
       \/ \E out \in Outcomes : AnalyzeInfer(i, out)
       \/ \E out \in Outcomes : AnalyzeFallback(i, out)
       \/ AnalyzeResponse(i) \/ AnalyzeWindow(i)
  \/ setMinorMode
  \/ \E j \in DOMAIN handlers : SinkOk(j) \/ SinkReject(j)

RestartSpec == SinkInit /\ [][RestartNext]_vars

\* ---- the gate content script of one tab ----
\* The stored verificationAllowedUntil as the script sees it: 0 is a missing
\* key, a positive value a number, and a negative value -n a string holding
\* the digits of n (a value that is not a number).
\* variant: no typeof test, the comparison coerces a string to its number
GateBlocksCoerced(stored, t) == stored = 0 \/ t > Abs(stored)
\* the condition of checkAndApply: falsy, not a number, or expired
GateBlocks(stored, t) == stored = 0 \/ stored < 0 \/ t > stored

\* checkAndApply up to its await: the initial check, a storage change or the
\* one-minute timer starts it and chrome.storage.local.get answers
checkAndApplyRead ==
  /\ gateRead = <<>>
  /\ gateRead' = <<verificationAllowedUntil>>
  /\ UNCHANGED <<store, consentWindow, popup, buttons, camera, session,
                 lastMinorState, isAnalyzing, ui, starts, an, timers, bg, now,
                 clicks, ensemble, feed, detector, videoSize, consentPage, pages, installWarned,
                 overlay, lastVerdict>>

\* variant: the else branch is missing, an overlay once shown stays
checkAndApplyBlocksOnly ==
  /\ gateRead # <<>>
  /\ overlay' = (overlay \/ GateBlocks(gateRead[1], now))
  /\ gateRead' = <<>>
  /\ UNCHANGED <<store, consentWindow, popup, buttons, camera, session,
                 lastMinorState, isAnalyzing, ui, starts, an, timers, bg, now,
                 clicks, ensemble, feed, detector, videoSize, consentPage, pages, installWarned,
                 lastVerdict>>

\* the rest of checkAndApply: blockPage() or unblockPage()
checkAndApply ==
  /\ gateRead # <<>>
  /\ overlay' = GateBlocks(gateRead[1], now)
  /\ gateRead' = <<>>
  /\ UNCHANGED <<store, consentWindow, popup, buttons, camera, session,
                 lastMinorState, isAnalyzing, ui, starts, an, timers, bg, now,
                 clicks, ensemble, feed, detector, videoSize, consentPage, pages, installWarned,
                 lastVerdict>>

\* time passes in the tab
GateTick ==
  /\ now < MaxGateTicks * TickMs
  /\ now' = now + TickMs
  /\ UNCHANGED <<store, consentWindow, popup, buttons, camera, session,
                 lastMinorState, isAnalyzing, ui, starts, an, timers, bg, clicks,
                 ensemble, feed, detector, videoSize, consentPage, pages, installWarned, gate,
                 lastVerdict>>

\* A tab with the gate script, the store as earlier use left it (no window,
\* a window that runs out within the hour, a value that is not a number), and
\* a popup cycle that is about to write the window.
GateInit ==
  /\ consentGiven = TRUE /\ consentWindow = FALSE
  /\ verificationAllowedUntil \in {0, TickMs, 2 * TickMs, 0 - 3 * TickMs}
  /\ \E verdict \in Verdicts :
       /\ isMinor = verdict /\ lastMinorState = verdict /\ resultText = verdict
       /\ lastVerdict = verdict
       /\ rules = IF verdict = "MINOR" THEN SafeSearchRules ELSE {}
       /\ an = <<[id |-> 1, pc |-> "window", padIdx |-> 1, faces |-> <<>>,
                  region |-> FullFrame(DefaultVideo), probs |-> <<>>,
                  result |-> Result(IF verdict = "MINOR" THEN <<460>> ELSE <<881>>),
                  stopped |-> FALSE,
                  before |-> <<verdict, verdict, rules, verificationAllowedUntil>>]>>
  /\ popup = "ready" /\ startBtnDisabled = TRUE /\ stopBtnDisabled = FALSE
  /\ stream = TRUE /\ running = TRUE /\ session = TRUE
  /\ isAnalyzing = TRUE
  /\ live = 1 /\ videoPaused = FALSE
  /\ errorBadge = FALSE
  /\ starts = <<>>
  /\ autoStopTimers = 0 /\ errorTimers = 0
  /\ msgs = <<>> /\ handlers = <<>>
  /\ now = 0 /\ clicks = 1
  /\ ensemble = <<FACE_PADDING>> /\ feed = <<>>
  /\ detector = NoDetector /\ videoSize = DefaultVideo
  /\ installWarned = FALSE
  /\ overlay = FALSE /\ gateRead = <<>>
  /\ webLastMinorState = NULL /\ isProcessing = FALSE
  /\ webResult = NoWebResult /\ openReq = "none"
  /\ consentChecked = FALSE /\ acceptBtnDisabled = TRUE
  /\ acceptText = "Accept & Continue" /\ saving = 0

GateNext ==
  \/ checkAndApplyRead \/ checkAndApply \/ GateTick
  \/ \E i \in DOMAIN an : AnalyzeWindow(i)

GateSpec == GateInit /\ [][GateNext]_vars

\* the same tab with its checks never ceasing: setInterval(checkAndApply,
\* ONE_MINUTE) starts a check again and again, and storage.get answers
GateFairSpec ==
  GateInit /\ [][GateNext]_vars
    /\ WF_vars(checkAndApplyRead) /\ WF_vars(checkAndApply)

\* ---- the pages beside the popup: full-page analyzer, gate overlay ----
\* the sender id of the full-page analyzer in msgs and handlers (the popup's
\* calls carry the id of their analyzeFrame invocation, onInstalled 0)
WebPage == 0 - 1

\* web_script.js runInference: <<>> when it throws, else the probability of
\* "major"
webRunInference(out) ==
  IF out.kind = "throw" THEN <<>>
  ELSE IF Len(out.data) = 1
    THEN LET rawValue == out.data[1]
         IN <<IF rawValue >= 0 /\ rawValue <= 1000
                THEN rawValue
                ELSE Ratio(Exp(0), Exp(0) + Exp(0 - rawValue))>>
  ELSE IF Len(out.data) = 2
    THEN LET max == Max(out.data[1], out.data[2])
             exps == <<Exp(out.data[1] - max), Exp(out.data[2] - max)>>
             sum == exps[1] + exps[2]
         IN <<Ratio(exps[2], sum)>>
  ELSE <<>>

\* analyzeImage: probability >= 0.5 ? 'MAJOR' : 'MINOR'
webPrediction(probability) == IF probability >= 500 THEN "MAJOR" ELSE "MINOR"

\* a SET_SAFE request of this sender is on its way or being handled
Pending(from) ==
  \/ \E k \in DOMAIN msgs : msgs[k].from = from
  \/ \E k \in DOMAIN handlers : handlers[k].from = from

\* analyzeImage up to its sendMessage: the result is shown and SET_SAFE is
\* sent when the page's own cache differs; a failed inference is only logged
analyzeImage(out) ==
  /\ ~isProcessing
  /\ IF webRunInference(out) = <<>>
       THEN UNCHANGED <<pages, msgs>>
       ELSE LET probability == webRunInference(out)[1]
                prediction == webPrediction(probability)
            IN /\ webResult' = [prediction |-> prediction,
                                probability |-> probability]
               /\ IF webLastMinorState # prediction
                    THEN /\ webLastMinorState' = prediction
                         /\ isProcessing' = TRUE
                         /\ msgs' = Append(msgs, [from |-> WebPage,
                                                  minor |-> prediction])
                    ELSE UNCHANGED <<webLastMinorState, isProcessing, msgs>>
               /\ UNCHANGED openReq
  /\ UNCHANGED <<store, consentWindow, popup, buttons, camera, session,
                 lastMinorState, isAnalyzing, ui, starts, an, timers, handlers,
                 now, clicks, ensemble, feed, detector, videoSize, consentPage, installWarned,
                 gate, lastVerdict>>

\* analyzeImage after its await: the callback ran (a response, or none when
\* the port closed), the finally block clears the flag
analyzeImageDone ==
  /\ isProcessing
  /\ ~Pending(WebPage)
  /\ isProcessing' = FALSE
  /\ UNCHANGED <<store, consentWindow, popup, buttons, camera, session,
                 lastMinorState, isAnalyzing, ui, starts, an, timers, bg, now,
                 clicks, ensemble, feed, detector, videoSize, consentPage, installWarned,
                 gate, webLastMinorState, webResult, openReq, lastVerdict>>

\* setMinorMode with chrome.storage.local.set rejecting: the exception leaves
\* the listener's async function, sendResponse is never called
setMinorModeThrows ==
  /\ msgs # <<>>
  /\ msgs' = Tail(msgs)
  /\ UNCHANGED <<store, consentWindow, popup, buttons, camera, session,
                 lastMinorState, isAnalyzing, ui, starts, an, timers, handlers,
                 env, lastVerdict>>

\* updateSafeSearch when the message port closes with no response: the
\* callback gets undefined, neither branch runs
AnalyzePortClosed(i) ==
  /\ an[i].pc = "await"
  /\ ~Pending(an[i].id)
  /\ an' = [an EXCEPT ![i].pc = "window"]
  /\ UNCHANGED <<store, consentWindow, popup, buttons, camera, session,
                 lastMinorState, isAnalyzing, ui, starts, timers, bg, env,
                 lastVerdict>>

\* the overlay's "Start verification" button: sendMessage OPEN_VERIFICATION
OverlayClick ==
  /\ overlay
  /\ openReq = "none"
  /\ openReq' = "sent"
  /\ UNCHANGED <<store, consentWindow, popup, buttons, camera, session,
                 lastMinorState, isAnalyzing, ui, starts, an, timers, bg, now,
                 clicks, ensemble, feed, detector, videoSize, consentPage, installWarned,
                 gate, webLastMinorState, isProcessing, webResult, lastVerdict>>

\* the background's onMessage listener on a message whose type is not
\* SET_SAFE: the async function does nothing, the listener returns true
onMessageOther ==
  /\ openReq = "sent"
  /\ openReq' = "unanswered"
  /\ UNCHANGED <<store, consentWindow, popup, buttons, camera, session,
                 lastMinorState, isAnalyzing, ui, starts, an, timers, bg, now,
                 clicks, ensemble, feed, detector, videoSize, consentPage, installWarned,
                 gate, webLastMinorState, isProcessing, webResult, lastVerdict>>

\* the port of the unanswered message closes: the overlay's await rejects and
\* the click handler's catch swallows it
OverlayPortClosed ==
  /\ openReq = "unanswered"
  /\ openReq' = "none"
  /\ UNCHANGED <<store, consentWindow, popup, buttons, camera, session,
                 lastMinorState, isAnalyzing, ui, starts, an, timers, bg, now,
                 clicks, ensemble, feed, detector, videoSize, consentPage, installWarned,
                 gate, webLastMinorState, isProcessing, webResult, lastVerdict>>

\* what the image in front of the full-page analyzer can come back with
WebOutcomes == Outcomes \cup {Data(<<510>>), Data(<<600>>)}
\* the popup's classifier answers beside it: first pass, fallback pass
PagesFeeds ==
  {<<a, b>> : a \in {Throw, Data(<<460>>), Data(<<510>>), Data(<<600>>),
                     Data(<<200, 800>>)},
              b \in {Throw, Data(<<460>>)}}

\* The popup in a cycle (as in CycleInit, one pass), the full-page analyzer
\* open beside it, a tab with the gate script, the background serving all.
PagesInit ==
  /\ consentGiven = TRUE /\ consentWindow = FALSE
  /\ \E prior \in {NULL} \cup Verdicts :
       /\ isMinor = prior /\ lastMinorState = LoadLastState(prior)
       /\ rules = IF prior = "MINOR" THEN SafeSearchRules ELSE {}
       /\ verificationAllowedUntil = IF prior = NULL THEN 0 ELSE AllowedUntil(0)
  /\ popup = "ready" /\ startBtnDisabled = TRUE /\ stopBtnDisabled = FALSE
  /\ stream = TRUE /\ running = TRUE /\ session = TRUE
  /\ isAnalyzing = TRUE
  /\ live = 1 /\ videoPaused = FALSE
  /\ resultText = "-" /\ errorBadge = FALSE
  /\ starts = <<>>
  /\ an = <<[id |-> 1, pc |-> "pass", padIdx |-> 1, faces |-> <<>>,
             region |-> NoRegion, probs |-> <<>>,
             result |-> NoResult, stopped |-> FALSE, before |-> Persistent]>>
  /\ autoStopTimers = 0 /\ errorTimers = 0
  /\ msgs = <<>> /\ handlers = <<>>
  /\ now = TickMs /\ clicks = 1
  /\ ensemble = <<FACE_PADDING>> /\ feed \in PagesFeeds
  /\ detector = NoDetector /\ videoSize = DefaultVideo
  /\ installWarned = FALSE
  /\ overlay = FALSE /\ gateRead = <<>>
  /\ webLastMinorState = NULL /\ isProcessing = FALSE
  /\ webResult = NoWebResult /\ openReq = "none"
  /\ consentChecked = FALSE /\ acceptBtnDisabled = TRUE
  /\ acceptText = "Accept & Continue" /\ saving = 0
  /\ lastVerdict = NULL

PagesNext ==
  \/ \E i \in DOMAIN an :
       \/ AnalyzePass(i)
       \/ AnalyzeInfer(i, feed[an[i].padIdx])
       \/ AnalyzeFallback(i, feed[Len(feed)])
       \/ AnalyzeResponse(i) \/ AnalyzePortClosed(i) \/ AnalyzeWindow(i)
  \/ \E out \in WebOutcomes : analyzeImage(out)
  \/ analyzeImageDone
  \/ setMinorMode \/ setMinorModeThrows
  \/ \E j \in DOMAIN handlers : SinkOk(j) \/ SinkFail(j)
  \/ checkAndApplyRead \/ checkAndApply
  \/ OverlayClick \/ onMessageOther \/ OverlayPortClosed

PagesSpec == PagesInit /\ [][PagesNext]_vars

\* ---- one cycle to its end, every step taken sooner or later ----
\* The popup's cycle and the background alone.  Each step waits for a promise
\* the platform settles: an inference resolves or rejects, a timer fires, the
\* background runs its listener, and a port nobody will answer is closed
\* when the listener's sendResponse is released.
FlagNext ==
  \/ \E i \in DOMAIN an :
       \/ AnalyzePass(i)
       \/ AnalyzeInfer(i, feed[an[i].padIdx])
       \/ AnalyzeFallback(i, feed[Len(feed)])
       \/ AnalyzeResponse(i) \/ AnalyzePortClosed(i) \/ AnalyzeWindow(i)
  \/ setMinorMode \/ setMinorModeThrows
  \/ \E j \in DOMAIN handlers : SinkOk(j) \/ SinkFail(j)

FlagSpec == PagesInit /\ [][FlagNext]_vars /\ WF_vars(FlagNext)

\* ---- the consent page, handler by handler ----
\* consentCheckbox 'change': acceptBtn.disabled = !consentCheckbox.checked
CheckboxChange ==
  /\ consentWindow
  /\ consentChecked' = ~consentChecked
  /\ acceptBtnDisabled' = ~consentChecked'
  /\ UNCHANGED <<store, consentWindow, popup, buttons, camera, session,
                 lastMinorState, isAnalyzing, ui, starts, an, timers, bg, now,
                 clicks, ensemble, feed, detector, videoSize, installWarned, gate,
                 pages, acceptText, saving, lastVerdict>>

\* acceptBtn 'click' up to its await: the button is disabled, 'Saving...'
AcceptClick ==
  /\ consentWindow
  /\ ~acceptBtnDisabled
  /\ saving < MaxSaves
  /\ acceptBtnDisabled' = TRUE
  /\ acceptText' = "Saving..."
  /\ saving' = saving + 1
  /\ UNCHANGED <<store, consentWindow, popup, buttons, camera, session,
                 lastMinorState, isAnalyzing, ui, starts, an, timers, bg, now,
                 clicks, ensemble, feed, detector, videoSize, installWarned, gate,
                 pages, consentChecked, lastVerdict>>

\* chrome.storage.local.set({consentGiven: true, ...}) resolved: 'Accepted!'
AcceptSaved ==
  /\ consentWindow
  /\ saving > 0
  /\ consentGiven' = TRUE
  /\ acceptText' = "Accepted!"
  /\ saving' = saving - 1
  /\ UNCHANGED <<isMinor, verificationAllowedUntil, rules, consentWindow, popup,
                 buttons, camera, session, lastMinorState, isAnalyzing, ui, starts,
                 an, timers, bg, now, clicks, ensemble, feed, detector, videoSize,
                 installWarned, gate, pages, consentChecked, acceptBtnDisabled,
                 lastVerdict>>

\* the write rejected, the catch block: the button is enabled again
AcceptFailed ==
  /\ consentWindow
  /\ saving > 0
  /\ acceptBtnDisabled' = FALSE
  /\ acceptText' = "Accept & Continue"
  /\ saving' = saving - 1
  /\ UNCHANGED <<store, consentWindow, popup, buttons, camera, session,
                 lastMinorState, isAnalyzing, ui, starts, an, timers, bg, now,
                 clicks, ensemble, feed, detector, videoSize, installWarned, gate,
                 pages, consentChecked, lastVerdict>>

\* window.close(): 800 ms after 'Accepted!', or the decline button confirmed;
\* the page and its handlers are gone, a new window starts afresh
ConsentWindowClose ==
  /\ consentWindow
  /\ consentWindow' = FALSE
  /\ consentChecked' = FALSE /\ acceptBtnDisabled' = TRUE
  /\ acceptText' = "Accept & Continue" /\ saving' = 0
  /\ UNCHANGED <<store, popup, buttons, camera, session, lastMinorState,
                 isAnalyzing, ui, starts, an, timers, bg, now, clicks, ensemble,
                 feed, detector, videoSize, installWarned, gate, pages,
                 lastVerdict>>

\* The consent window just opened by a popup that found no consent: the box
\* unchecked and Accept disabled (the state the change handler keeps for an
\* unchecked box), nothing stored yet.
ConsentInit ==
  /\ consentGiven = FALSE /\ isMinor = NULL /\ verificationAllowedUntil = 0
  /\ rules = {}
  /\ consentWindow = TRUE
  /\ popup = "closed" /\ startBtnDisabled = FALSE /\ stopBtnDisabled = TRUE
  /\ stream = FALSE /\ running = FALSE /\ session = FALSE
  /\ lastMinorState = NULL /\ isAnalyzing = FALSE
  /\ live = 0 /\ videoPaused = TRUE
  /\ resultText = "-" /\ errorBadge = FALSE
  /\ starts = <<>> /\ an = <<>>
  /\ autoStopTimers = 0 /\ errorTimers = 0
  /\ msgs = <<>> /\ handlers = <<>>
  /\ now = 0 /\ clicks = 0 /\ ensemble = <<FACE_PADDING>> /\ feed = <<>>
  /\ detector = NoDetector /\ videoSize = DefaultVideo
  /\ installWarned = FALSE
  /\ overlay = FALSE /\ gateRead = <<>>
  /\ webLastMinorState = NULL /\ isProcessing = FALSE
  /\ webResult = NoWebResult /\ openReq = "none"
  /\ consentChecked = FALSE /\ acceptBtnDisabled = TRUE
  /\ acceptText = "Accept & Continue" /\ saving = 0
  /\ lastVerdict = NULL

ConsentNext ==
  \/ CheckboxChange \/ AcceptClick \/ AcceptSaved \/ AcceptFailed
  \/ ConsentWindowClose
  \/ initialize \/ ConsentPoll \/ PopupClose \/ ModelPreload

ConsentSpec == ConsentInit /\ [][ConsentNext]_vars

\* ======================= the claims =======================
InstalledRules == SafeSearchRules \subseteq rules
\* a cycle ends with a Verdict / in the error state in this step
CycleCompletes == isAnalyzing /\ ~isAnalyzing' /\ resultText' \in Verdicts
CycleFails == isAnalyzing /\ ~isAnalyzing' /\ resultText' = "Error"
\* a Verdict is handed to updateSafeSearch in this step
VerdictStep == resultText = "-" /\ resultText' \in Verdicts

\* C1: when a cycle's Verdict equals the Verdict of the cycle before it, the
\* second updateSafeSearch call sends no SET_SAFE message.
C1_SameVerdictSendsNothing ==
  [][(VerdictStep /\ resultText' = lastVerdict) => msgs' = msgs]_vars
\* a second MINOR cycle after one whose enable call failed, about to finish
\* without having called the sink
C1_Witness ==
  \E i \in DOMAIN an :
    /\ an[i].pc = "window" /\ resultText = "MINOR" /\ isMinor = "MINOR"
    /\ rules = {} /\ ~errorBadge

\* C2: whenever the latest cycle has completed with a Verdict, the SafeSearch
\* rules are installed if and only if that Verdict is MINOR.
C2_ActiveIffMinor ==
  (an = <<>> /\ msgs = <<>> /\ handlers = <<>> /\ resultText \in Verdicts)
    => (InstalledRules <=> resultText = "MINOR")

\* C3: a Verdict makes the controller call the sink unless the policy is
\* already in the Verdict's target state (Enforced for MINOR: the enable call
\* succeeded; Cleared for MAJOR: the disable call succeeded).
PolicyState ==
  IF isMinor = "MINOR" /\ InstalledRules THEN "Enforced"
  ELSE IF isMinor = "MAJOR" /\ rules \cap SafeSearchRules = {} THEN "Cleared"
  ELSE "Unset"
TargetState(verdict) == IF verdict = "MINOR" THEN "Enforced" ELSE "Cleared"
C3_CallUnlessInTarget ==
  [][VerdictStep =>
       ((Len(msgs') > Len(msgs)) <=> (PolicyState # TargetState(resultText')))]_vars

C5_FailedCycleChangesNothing ==
  [][CycleFails =>
       /\ msgs = <<>> /\ msgs' = <<>> /\ handlers' = <<>>
       /\ \A i \in DOMAIN an : Persistent' = an[i].before]_vars
\* a failed cycle after an earlier cycle had recorded a Verdict and a window
C5_Witness ==
  /\ resultText = "Error" /\ ~isAnalyzing /\ isMinor # NULL
  /\ verificationAllowedUntil > 0

C7_ConsentGate ==
  ~consentGiven =>
    /\ popup # "ready" /\ starts = <<>> /\ an = <<>>
    /\ ~stream /\ live = 0 /\ ~isAnalyzing
    /\ msgs = <<>> /\ handlers = <<>>
    /\ isMinor = NULL /\ rules = {} /\ verificationAllowedUntil = 0
\* the gate has refused: the consent window is open, consent not yet given
C7_Witness == ~consentGiven /\ consentWindow /\ popup = "closed"

\* C8: at most one analyzeFrame invocation is in flight, and a request that
\* arrives while isAnalyzing is true ends at once: no invocation is added, and
\* the flag, the messages and the window stay as they are.
C8_SingleFlight ==
  [][/\ Len(an') <= 1
     /\ (isAnalyzing /\ \E i \in DOMAIN starts : StartSettleRun(i)) =>
          /\ an' = an /\ isAnalyzing' /\ msgs' = msgs
          /\ Len(starts') = Len(starts) - 1
          /\ verificationAllowedUntil' = verificationAllowedUntil]_vars
\* the second request was dropped while the first cycle's analysis is in flight
C8_Witness ==
  /\ clicks = 2 /\ starts = <<>> /\ running
  /\ Len(an) = 1 /\ an[1].id = 1 /\ an[1].stopped

\* C9: once stopCamera has run during a cycle, that cycle dispatches no further
\* inference pass, sends no SET_SAFE message, records no Verdict and does not
\* write verificationAllowedUntil.
C9_StoppedCycleIsDiscarded ==
  [][\A i \in DOMAIN an : an[i].stopped =>
       /\ ~(an[i].pc # "infer" /\ i \in DOMAIN an' /\ an'[i].pc = "infer")
       /\ Len(msgs') <= Len(msgs)
       /\ lastMinorState' = lastMinorState
       /\ verificationAllowedUntil' = verificationAllowedUntil]_vars

\* C10: the camera stream is released on every exit path: when no start-up, no
\* analysis and no timer is pending any more, no stream is held or live.
C10_StreamReleased ==
  (starts = <<>> /\ an = <<>> /\ autoStopTimers = 0 /\ errorTimers = 0)
    => (~stream /\ live = 0)

\* C11: after a classification failure the stored Verdict is unchanged, the
\* in-flight flag is cleared and a start request is accepted: the Start button
\* is enabled and startCamera's running guard lets the request through.
C11_RetryAccepted ==
  (/\ popup = "ready" /\ resultText = "Error" /\ starts = <<>> /\ an = <<>>
   /\ errorTimers = 0 /\ autoStopTimers = 0)
    => (~isAnalyzing /\ ~startBtnDisabled /\ ~running)

\* ---- the cycles of CycleSpec ----
\* the ensemble passes' answers, and the probabilities of the valid ones: an
\* answer is valid when the classifier did not throw and the data has length 1 or 2
PassAnswers == SubSeq(feed, 1, Len(ensemble))
IsValidAnswer(out) == out.kind = "data" /\ Len(out.data) \in {1, 2}
RECURSIVE ValidPasses(_)
ValidPasses(f) ==
  IF f = <<>> THEN <<>>
  ELSE (IF IsValidAnswer(Head(f)) THEN PassProb(Head(f)) ELSE <<>>)
         \o ValidPasses(Tail(f))
\* the cycle has left the pass loop with a result
HasResult(i) == an[i].pc \in {"await", "respOk", "respErr", "window"}

\* C12: when at least one ensemble pass yields a valid probability, a failed
\* pass (a throw, or data of a length other than 1 or 2) is not fatal: the
\* cycle's Verdict and result are those of exactly the valid passes.
C12_FailedPassSkipped ==
  (ValidPasses(PassAnswers) # <<>> /\ (an = <<>> \/ \E i \in DOMAIN an : HasResult(i)))
    => /\ resultText = Prediction(ValidPasses(PassAnswers))
       /\ \A i \in DOMAIN an : an[i].result = Result(ValidPasses(PassAnswers))
\* an ensemble with a throwing pass, a pass of unknown shape and a valid pass
\* has produced a Verdict
C12_Witness ==
  /\ Len(ensemble) = 3 /\ Len(ValidPasses(PassAnswers)) = 1
  /\ \E k \in 1..3 : feed[k].kind = "throw"
  /\ \E k \in 1..3 : feed[k].kind = "data" /\ Len(feed[k].data) = 3
  /\ an = <<>> /\ resultText \in Verdicts

\* an inference call of invocation i is in flight
InFlight(i) == an[i].pc \in {"infer", "fallback"}
Dispatches(i) == ~InFlight(i) /\ i \in DOMAIN an' /\ an'[i].pc \in {"infer", "fallback"}

\* C13: the fallback pass is dispatched exactly when the last ensemble pass has
\* come back and no pass was valid, it is dispatched once, a fallback without a
\* valid probability ends the cycle in the error state, and every result is
\* computed from at least one probability.
C13_FallbackOnceIffAllFailed ==
  [][\A i \in DOMAIN an :
       /\ (i \in DOMAIN an' /\ an[i].pc # "fallback" /\ an'[i].pc = "fallback")
            <=> (/\ an[i].pc = "infer" /\ an' # an
                 /\ an[i].padIdx = Len(ensemble)
                 /\ ValidPasses(PassAnswers) = <<>>)
       /\ (an[i].pc = "fallback" /\ an' # an) =>
            /\ \A k \in DOMAIN an' : an'[k].pc # "fallback"
            /\ IF IsValidAnswer(feed[Len(feed)])
                 THEN /\ resultText' = Prediction(PassProb(feed[Len(feed)]))
                      /\ \A k \in DOMAIN an' : an'[k].result.inferenceCount = 1
                 ELSE resultText' = "Error" /\ an' = <<>>
       /\ (i \in DOMAIN an' /\ HasResult(i)') => an'[i].result.inferenceCount >= 1]_vars
\* every pass of a three-pass ensemble failed and the fallback gave the Verdict
C13_Witness ==
  /\ Len(ensemble) = 3 /\ ValidPasses(PassAnswers) = <<>>
  /\ \E i \in DOMAIN an : HasResult(i) /\ an[i].result.inferenceCount = 1

\* C14: the passes of a cycle run one after another: when a pass is dispatched
\* every earlier pass has come back (the valid ones are in the list), and at
\* most one inference call is in flight.
C14_PassesSequential ==
  [][/\ \A i \in DOMAIN an :
          (Dispatches(i) /\ an'[i].pc = "infer") =>
             /\ an'[i].padIdx = an[i].padIdx
             /\ an[i].probs = ValidPasses(SubSeq(feed, 1, an[i].padIdx - 1))
     /\ Cardinality({i \in DOMAIN an' : InFlight(i)'}) <= 1]_vars
\* the third pass is in flight after two valid passes
C14_Witness ==
  \E i \in DOMAIN an :
    an[i].pc = "infer" /\ an[i].padIdx = 3 /\ Len(an[i].probs) = 2

\* C15: the Verdict is MAJOR when the mean probability is >= 0.52 and MINOR
\* otherwise; a mean in [0.50, 0.52) gives MINOR, and MINOR is then the state
\* the popup hands to the policy sink.
C15_Threshold ==
  \A i \in DOMAIN an :
    HasResult(i) =>
      LET r == an[i].result IN
        /\ r.prediction = (IF r.sum >= 520 * r.inferenceCount THEN "MAJOR" ELSE "MINOR")
        /\ resultText = r.prediction
        /\ (500 * r.inferenceCount <= r.sum /\ r.sum < 520 * r.inferenceCount)
             => (r.prediction = "MINOR" /\ lastMinorState = "MINOR")
\* a single pass of 0.51 gave MINOR and the SET_SAFE request is on its way
C15_Witness ==
  \E i \in DOMAIN an :
    /\ an[i].pc = "await" /\ an[i].result.sum = 510
    /\ an[i].result.prediction = "MINOR"
    /\ msgs # <<>> /\ Head(msgs).minor = "MINOR"

\* C16: the confidence reported with a Verdict lies in [0.55, 0.95].
C16_ConfidenceRange ==
  \A i \in DOMAIN an :
    HasResult(i) =>
      /\ 100 * an[i].result.confidence >= 55 * ConfUnit * an[i].result.inferenceCount
      /\ 100 * an[i].result.confidence <= 95 * ConfUnit * an[i].result.inferenceCount
\* single passes of 0.0 and of 1.0: the confidence is 0.95
C16_Witness ==
  \E i \in DOMAIN an :
    /\ HasResult(i) /\ an[i].result.inferenceCount = 1
    /\ an[i].result.sum = 1000
    /\ 100 * an[i].result.confidence = 95 * ConfUnit

\* the probabilities the cycle's result is computed from
UsedPasses ==
  IF ValidPasses(PassAnswers) # <<>> THEN ValidPasses(PassAnswers)
  ELSE PassProb(feed[Len(feed)])
Reordered(ps, f) == [k \in DOMAIN ps |-> ps[f[k]]]

C18_NearBoundaryPenalty ==
  \A i \in DOMAIN an :
    HasResult(i) =>
      LET r == an[i].result
          n == r.inferenceCount
          clamped == ClampConfidence(AggregateConfidence(UsedPasses), n)
          ref == IF r.prediction = "MAJOR" THEN 520 ELSE 480
      IN IF Abs(r.sum - ref * n) < 80 * n
           THEN 100 * r.confidence = Max(55 * ConfUnit * n, 85 * clamped)
           ELSE r.confidence = clamped
\* single passes at distance 0.079 (penalised) 
C18_Witness ==
  \E i \in DOMAIN an :
    /\ HasResult(i) /\ an[i].result.inferenceCount = 1 /\ an[i].result.sum = 599
    /\ 100 * an[i].result.confidence
         = 85 * ClampConfidence(AggregateConfidence(<<599>>), 1)

\* the reference formula of the aggregated confidence, as a numerator over
\* ConfUnit * n: agreement is the fraction of passes on the majority side of
\* 0.5, stddev the population standard deviation, range max - min
RefConfidence(ps) ==
  LET n == Len(ps)
      s == Sum(ps)
      cap == (95 * ConfUnit * n) \div 100
      major == Cardinality({k \in DOMAIN ps : 2 * ps[k] >= 1000})
      agreement == Max(major, n - major) * ConfUnit
      hi == CHOOSE x \in {ps[k] : k \in DOMAIN ps} : \A k \in DOMAIN ps : ps[k] <= x
      lo == CHOOSE x \in {ps[k] : k \in DOMAIN ps} : \A k \in DOMAIN ps : ps[k] >= x
      devSq == Sum([k \in DOMAIN ps |-> (n * ps[k] - s) * (n * ps[k] - s)])
      consistent == devSq < 100 * 100 * n * n * n /\ hi - lo < 200
      inconsistent == devSq > 150 * 150 * n * n * n \/ hi - lo > 300
      boosted == IF consistent THEN Min(cap, (agreement * 12) \div 10) ELSE agreement
      far == Min(cap, boosted + 800 * Abs(s - 500 * n))
  IN IF n = 1
       THEN Min(cap, ConfUnit \div 2 + 3000 * Abs(s - 500))
       ELSE IF inconsistent THEN (far * 85) \div 100 ELSE far

\* C19: the confidence of every result is the reference formula's value (then
\* clamped and adjusted near the threshold); the passes [0.40, 0.55, 0.48]
\* give a mean of about 0.477, agreement 2/3 and the Verdict MINOR.
C19_ConfidenceFormula ==
  \A i \in DOMAIN an :
    HasResult(i) =>
      LET r == an[i].result IN
        /\ r.confidence =
             AdjustConfidence(ClampConfidence(RefConfidence(UsedPasses), Len(UsedPasses)),
                              UsedPasses, r.prediction)
        /\ UsedPasses = <<400, 550, 480>> =>
             /\ r.prediction = "MINOR" /\ r.inferenceCount = 3
             /\ Abs(1000 * r.sum - 477 * 1000 * 3) < 1000 * 3
             /\ Max(MajorVotes(UsedPasses), 3 - MajorVotes(UsedPasses)) = 2
\* the passes 0.40, 0.55, 0.48 in this order, with their result
C19_Witness ==
  \E i \in DOMAIN an :
    /\ HasResult(i) /\ UsedPasses = <<400, 550, 480>>
    /\ an[i].result.prediction = "MINOR"

\* Scenario A: a single-pass ensemble whose pass returns the data [0.2, 0.8]
ScenarioA == Len(ensemble) = 1 /\ feed[1] = Data(<<200, 800>>)

Logistic(v) == Ratio(Exp(v), Exp(v) + Exp(0))
\* a single-pass ensemble whose pass returns data of length 1
SinglePassLen1 ==
  Len(ensemble) = 1 /\ feed[1].kind = "data" /\ Len(feed[1].data) = 1
ScenarioB == Len(ensemble) = 1 /\ feed[1] = Data(<<460>>)
ScenarioC == Len(ensemble) = 1 /\ feed[1] = Data(<<2000>>)

C21_WitnessLogit ==
  \E i \in DOMAIN an :
    ScenarioC /\ HasResult(i) /\ an[i].result.prediction = "MAJOR"

\* the softmax weight of index 1 of [a, b], e^b / (e^a + e^b), in thousandths
SoftmaxWeight1(a, b) == Ratio(Exp(b), Exp(a) + Exp(b))
\* a single-pass ensemble whose pass returns data of length 2
SinglePassLen2 ==
  Len(ensemble) = 1 /\ feed[1].kind = "data" /\ Len(feed[1].data) = 2

\* C22: for a length-2 raw output [a, b] the probability of adult is the
\* softmax weight of index 1 (index 0 is the minor class), and it is above 0.5
\* exactly when b > a.
C22_Softmax ==
  \A i \in DOMAIN an :
    (SinglePassLen2 /\ HasResult(i)) =>
      LET a == feed[1].data[1]
          b == feed[1].data[2]
      IN /\ an[i].result.inferenceCount = 1
         /\ Abs(an[i].result.sum - SoftmaxWeight1(a, b)) <= 1
         /\ an[i].result.sum > 500 <=> b > a
\* the closest pair of the grid with b > a has been interpreted
C22_Witness ==
  \E i \in DOMAIN an :
    /\ SinglePassLen2 /\ HasResult(i) /\ feed[1].data = <<900, 1000>>
    /\ an[i].result.sum > 500 /\ an[i].result.sum < 600

\* the region the selector returned for the pass in hand
RegionChosen(i) == an[i].pc \in {"infer", "fallback"}
\* sizes of a face box in the whole pixels it covers
PixelWidth(b) == Ceil(b.bottomRight[1]) - Floor(b.topLeft[1])
PixelHeight(b) == Ceil(b.bottomRight[2]) - Floor(b.topLeft[2])
BelowMinimum(b) == PixelWidth(b) < MIN_FACE_SIZE \/ PixelHeight(b) < MIN_FACE_SIZE
\* the positions of the boxes no other box exceeds in area
LargestBoxes(f) ==
  {k \in DOMAIN f :
     \A j \in DOMAIN f :
       (f[j].bottomRight[1] - f[j].topLeft[1]) * (f[j].bottomRight[2] - f[j].topLeft[2])
         <= (f[k].bottomRight[1] - f[k].topLeft[1]) * (f[k].bottomRight[2] - f[k].topLeft[2])}

PaddingInForce(i) ==
  LET p == IF an[i].pc = "fallback" THEN FACE_PADDING ELSE ensemble[an[i].padIdx]
  IN IF p < 0 THEN 0 ELSE IF p > 50 THEN 50 ELSE p
\* box b rounded outward to whole pixels and grown by pct % of its own width to
\* the left and right and of its own height above and below, cut at the frame
PaddedBoxInFrame(b, pct, frame) ==
  LET padX == (PixelWidth(b) * pct) \div 100
      padY == (PixelHeight(b) * pct) \div 100
      left == Max(0, Floor(b.topLeft[1]) - padX)
      top == Max(0, Floor(b.topLeft[2]) - padY)
      right == Min(frame.width, Ceil(b.bottomRight[1]) + padX)
      bottom == Min(frame.height, Ceil(b.bottomRight[2]) + padY)
  IN [x |-> left, y |-> top, width |-> right - left, height |-> bottom - top,
      cropped |-> TRUE]

\* C24: when the region selector crops, the region is exactly the selected
\* face box grown by p % of its width and height on each side (p clamped to
\* [0, 50]) and intersected with the frame rectangle.
C24_PaddedBoxClipped ==
  \A i \in DOMAIN an :
    (RegionChosen(i) /\ an[i].region.cropped) =>
      \E k \in LargestBoxes(an[i].faces) :
        an[i].region = PaddedBoxInFrame(an[i].faces[k], PaddingInForce(i), videoSize)

\* a region of positive size that lies inside the frame
ValidRegion(r, frame) ==
  /\ r.width > 0 /\ r.height > 0
  /\ r.x >= 0 /\ r.y >= 0
  /\ r.x + r.width <= frame.width /\ r.y + r.height <= frame.height

\* C25: for every frame and every list of face boxes, boxes partly or wholly
\* outside the frame included, the region selector returns a region of
\* positive width and height inside the frame.
C25_RegionValid ==
  \A i \in DOMAIN an : RegionChosen(i) => ValidRegion(an[i].region, videoSize)

\* the detector is not loaded, or its call (or the overlay drawing) throws
DetectorFails == detector.kind \in {"absent", "throws"}

\* C26: when the face detector is not loaded or throws, the face list is
\* empty, every pass works on the full frame, and the cycle ends with the
\* Verdict of the classifier's answer whenever that answer is valid.
C26_DetectorNotFatal ==
  DetectorFails =>
    /\ \A i \in DOMAIN an :
         /\ an[i].faces = <<>>
         /\ RegionChosen(i) => an[i].region = FullFrame(videoSize)
    /\ IsValidAnswer(feed[1]) =>
         /\ resultText # "Error"
         /\ an = <<>> => resultText = Prediction(PassProb(feed[1]))
\* the detector threw after finding a face large enough to crop, and the
\* cycle has ended with a Verdict
C26_Witness ==
  /\ detector.kind = "throws" /\ detector.results # <<>>
  /\ \A k \in DOMAIN detector.results : ~BelowMinimum(detector.results[k])
  /\ an = <<>> /\ resultText \in Verdicts

\* the redirect rules as the claims describe them
HasGoogleRule(rs) ==
  \E r \in rs : r.urlFilter = "||google." /\ r.key = "safe" /\ r.value = "active"
HasBingRule(rs) ==
  \E r \in rs : r.urlFilter = "||bing.com" /\ r.key = "adlt" /\ r.value = "strict"
NoSearchRule(rs) == \A r \in rs : r.urlFilter \notin {"||google.", "||bing.com"}
\* the waiting cycle i is answered {ok: true} in this step
AnsweredOk(i) == an[i].pc = "await" /\ i \in DOMAIN an' /\ an'[i].pc = "respOk"

\* C27: when the background has processed a SET_SAFE message successfully, the
\* dynamic rules contain the Google rule (safe=active) and the Bing rule
\* (adlt=strict) if the message said minor, and neither if it said major.
C27_RulesFollowMessage ==
  [][\A i \in DOMAIN an :
       AnsweredOk(i) =>
         \E j \in DOMAIN handlers :
           /\ handlers[j].from = an[i].id /\ handlers' = Remove(handlers, j)
           /\ IF handlers[j].minor = "MINOR"
                THEN HasGoogleRule(rules') /\ HasBingRule(rules')
                ELSE NoSearchRule(rules')]_vars
\* a major message answered with success where the rules had been installed
C27_Witness ==
  \E i \in DOMAIN an :
    /\ an[i].pc = "respOk" /\ lastVerdict = "MAJOR" /\ isMinor = "MAJOR"
    /\ HasGoogleRule(an[i].before[3]) /\ rules = {}

\* the call handler j makes asks for what the rule set already is
RedundantCall(j) ==
  IF handlers[j].minor = "MINOR" THEN HasGoogleRule(rules) /\ HasBingRule(rules)
  ELSE NoSearchRule(rules)
\* handler j returns in this step, and its caller learns of a success
ReturnsOk(j) ==
  /\ handlers[j].from = 0 => ~installWarned'
  /\ \A i \in DOMAIN an :
       (an[i].id = handlers[j].from /\ an[i].pc = "await")
         => (i \in DOMAIN an' /\ an'[i].pc = "respOk")

\* C28: the sink tolerates redundant calls: enable with the rules already
\* installed (as on the install/update event with isMinor = true persisted)
\* and disable with the rules already absent succeed and leave the rule set
\* as it was.
C28_RedundantCallsSucceed ==
  [][\A j \in DOMAIN handlers :
       (RedundantCall(j) /\ handlers' = Remove(handlers, j))
         => (ReturnsOk(j) /\ rules' = rules)]_vars

\* the popup starts in this step and its start-up code runs to the end
PopupStarts == popup = "closed" /\ popup' = "ready"

\* C29: a cycle that completes leaves the persisted isMinor equal to its
\* Verdict; a starting popup takes its last-known state from the persisted
\* isMinor; and whenever the popup is up with no SET_SAFE message on its way
\* to the background, the cached and the persisted value agree.
C29_VerdictPersisted ==
  [][/\ CycleCompletes => isMinor' = resultText'
     /\ PopupStarts => lastMinorState' = isMinor
     /\ (popup' = "ready" /\ msgs' = <<>>) => lastMinorState' = isMinor']_vars

\* a check of the gate script reaches its decision in this step
GateDecides == gateRead # <<>> /\ gateRead' = <<>>

\* C30: at every check the gate script blocks the page if and only if the
\* verificationAllowedUntil it read is absent, is not a number, or lies before
\* now; when now <= verificationAllowedUntil the page is unblocked.
C30_GateBlocksIffExpired ==
  [][GateDecides =>
       LET v == gateRead[1] IN
       /\ overlay' <=> (v = 0 \/ v < 0 \/ now > v)
       /\ (v > 0 /\ now <= v) => ~overlay']_vars
\* a page blocked by a check that found the window run out
C30_Witness ==
  /\ overlay /\ gateRead = <<>>
  /\ verificationAllowedUntil > 0 /\ now > verificationAllowedUntil

\* no SET_SAFE request is on its way to the background or being handled
NoRequestInFlight == msgs = <<>> /\ handlers = <<>>
\* updateSafeSearch returns in this step without calling the sink
SinkCallSkipped == VerdictStep /\ msgs' = msgs

\* C31: whenever no SET_SAFE request is in flight the open popup's cached
\* lastMinorState equals the stored isMinor, also with the full-page analyzer
\* sending SET_SAFE beside it; and a sink call the popup skips would not
\* have changed the installed rules.
C31_CacheFollowsStore ==
  [][/\ (popup' # "closed" /\ NoRequestInFlight') => lastMinorState' = isMinor'
     /\ SinkCallSkipped => (InstalledRules <=> resultText' = "MINOR")]_vars

\* C32: a cycle that has set isAnalyzing clears it in the end, whether it
\* completes, fails to classify, has its sink call succeed or fail, or has
\* its SET_SAFE request dropped by a handler that fails before responding.
C32_FlagCleared == isAnalyzing ~> ~isAnalyzing
\* the cycle is over and the flag clear although the request was dropped:
\* the cache holds the Verdict the store never received
C32_Witness ==
  /\ ~isAnalyzing /\ an = <<>> /\ NoRequestInFlight
  /\ resultText \in Verdicts /\ lastMinorState = resultText
  /\ isMinor # resultText

\* an auto-stop timer fires in this step
AutoStopFires == autoStopTimers' < autoStopTimers
\* a cycle is under way: every pending auto-stop timer was set by a cycle
\* that ended before this one began to analyse
LaterCycleUnderWay == an # <<>>

\* C33: the auto-stop timer a completed cycle set ends only that cycle: when
\* it fires after the user has stopped the camera and started a new cycle,
\* the new cycle's stream and running flag are left as they are.
C33_TimerEndsOwnCycle ==
  [][(AutoStopFires /\ LaterCycleUnderWay) =>
       (stream' = stream /\ running' = running /\ live' = live)]_vars

\* C34: start requests that arrive before the first has set running cannot
\* both acquire a camera stream: at most one stream is live at any time, and
\* a live stream is the one state.stream refers to.
C34_OneReferencedStream == live <= 1 /\ (live = 1 => stream)

\* the user clicks the enabled Start button of the open popup
ClickOnStart == clicks' > clicks /\ ~startBtnDisabled

\* C35: when consent was missing as the popup initialized and is granted
\* while the popup is open, the Start button becomes enabled, and a click on
\* it starts a verification cycle (a start request is under way after it).
C35_ClickStartsCycle ==
  [][/\ (popup = "gated" /\ popup' = "enabled") => ~startBtnDisabled'
     /\ (ClickOnStart /\ consentGiven /\ ~running) =>
          Len(starts') = Len(starts) + 1]_vars

\* the background's listener takes a SET_SAFE message in this step
ReceivesSetSafe == Len(msgs') < Len(msgs)
\* the background's listener takes the overlay's message in this step
ReceivesOpenVerification == openReq = "sent" /\ openReq' # "sent"
\* a handler that ends tells the popup call that waits for it
HandlerAnswers ==
  \A j \in DOMAIN handlers, i \in DOMAIN an :
    (Len(handlers') < Len(handlers) /\ handlers' = Remove(handlers, j)
       /\ an[i].id = handlers[j].from /\ an[i].pc = "await")
      => (i \in DOMAIN an' /\ an'[i].pc \in {"respOk", "respErr"})

\* C36: every message the other scripts send to the background (SET_SAFE
\* from the popup and the full-page analyzer, OPEN_VERIFICATION from the
\* gate overlay) is handled there and answered with a response: a received
\* SET_SAFE gets a handler, a handler that ends answers, and a received
\* OPEN_VERIFICATION is not left without an answer.
C36_EveryMessageAnswered ==
  [][/\ ReceivesSetSafe => Len(handlers') = Len(handlers) + 1
     /\ HandlerAnswers
     /\ ReceivesOpenVerification => openReq' # "unanswered"]_vars

\* the stored window is a number and has not run out / has run out
WindowOpen == verificationAllowedUntil > 0 /\ now <= verificationAllowedUntil
WindowExpired == verificationAllowedUntil > 0 /\ now > verificationAllowedUntil

SameProbability(i) ==
  /\ HasResult(i) /\ an[i].result.inferenceCount = 1
  /\ webResult.prediction # NULL
  /\ an[i].result.sum = webResult.probability

\* C38: the popup and the full-page analyzer decide alike: from the same
\* probability of "major" both reach the same Verdict (and so send the same
\* SET_SAFE value).
C38_PagesDecideAlike ==
  \A i \in DOMAIN an :
    SameProbability(i) => an[i].result.prediction = webResult.prediction

\* the accept handler's write of consentGiven: true went through in this step
ConsentWritten == saving' < saving /\ acceptText' = "Accepted!"
\* an accept handler starts in this step
AcceptClicked == saving' > saving

\* C39: consentGiven is written as true only by the accept handler, and that
\* handler starts only while the consent checkbox is checked; whatever the order of checkbox
\* changes, accept clicks and failed writes, the accept button is never
\* enabled while the box is unchecked, and consentGiven is never set false.
C39_ConsentOnlyWhileChecked ==
  [][/\ consentGiven' # consentGiven => ConsentWritten
     /\ AcceptClicked => consentChecked
     /\ (consentWindow' /\ ~consentChecked') => acceptBtnDisabled'
     /\ consentGiven => consentGiven']_vars

====
